---- MODULE Spec2Model ----
(***************************************************************************)
(* Texas Hold'em table engine (backend/src/engine.py): the hand evaluator  *)
(* and the betting state machine of PokerEngine.                           *)
(*                                                                         *)
(* Seats are kept 0-based as in the source (dealer_idx, current_player_idx *)
(* index the player list); the TLA+ sequence `players` is 1-based, so seat *)
(* i is players[i + 1].  A player's id is its seat number + 1.             *)
(***************************************************************************)
EXTENDS Integers, Sequences, FiniteSets, TLC

(* ---------------------------------------------------------------------- *)
(* Program constants                                                       *)
(* ---------------------------------------------------------------------- *)
small_blind == 10
big_blind == 20
max_raises_per_street == 4

HIGH_CARD == 1
PAIR == 2
TWO_PAIR == 3
THREE_OF_A_KIND == 4
STRAIGHT == 5
FLUSH == 6
FULL_HOUSE == 7
FOUR_OF_A_KIND == 8
STRAIGHT_FLUSH == 9
ROYAL_FLUSH == 10

(* ---------------------------------------------------------------------- *)
(* Bounds of the model                                                     *)
(* ---------------------------------------------------------------------- *)
\* seats that add_player may fill
MaxPlayers == 2
\* seats that add_player may fill at the larger table (SpecRing)
RingSeats == 3
\* start_hand calls in one behaviour
MaxHands == 1
\* player_action calls made on a hand that is already FINISHED
MaxLateCalls == 0
\* player_action calls made on a hand after the first one (the first hand is
\* played without a limit)
MaxNextHandCalls == 0

\* chips add_player brings to the table in total
MaxTableChips == 245

\* stacks add_player seats a player with: an eliminated seat, a stack below
\* the small blind, a stack deep enough for max_raises_per_street raises
\* the player_action calls made after a hand is FINISHED, in SpecLate
MaxLatePlays == 1

\* the start_hand calls made after the first one, in SpecRestart
MaxRestarts == 1

\* the seats of the table main.py sets up, the human and the bots (main.py
\* seats the human and the five bots of BOT_PROFILES)
ServerSeats == 2

\* the client requests the server handles, in SpecServer
MaxRequests == 3

StartChips == {0, 5, 120}

(* ---------------------------------------------------------------------- *)
(* Cards                                                                   *)
(* ---------------------------------------------------------------------- *)
\* Card(rank, suit): rank 2..14, suit one of the four symbols
Card(r, s) == [rank |-> r, suit |-> s]

Min(a, b) == IF a < b THEN a ELSE b

\* Python's list comparison a > b: element by element, a proper prefix is smaller
RECURSIVE ListGT(_, _)
ListGT(a, b) ==
    IF a = <<>> THEN FALSE
    ELSE IF b = <<>> THEN TRUE
    ELSE IF a[1] # b[1] THEN a[1] > b[1]
    ELSE ListGT(Tail(a), Tail(b))

(* ---------------------------------------------------------------------- *)
(* HandEvaluator                                                           *)
(* ---------------------------------------------------------------------- *)
\* sorted(seq, key=k, reverse=True) over items [key |-> k(x), val |-> x]: the keys
\* (an int, or a tuple of ints and a list of ints, flattened) compare as Python
\* compares them; the sort is stable, equal keys keep their order
RECURSIVE InsertDesc(_, _)
InsertDesc(x, s) ==
    IF s = <<>> THEN <<x>>
    ELSE IF ListGT(x.key, s[1].key) THEN <<x>> \o s
    ELSE <<s[1]>> \o InsertDesc(x, Tail(s))

RECURSIVE SortedDesc(_)
SortedDesc(s) ==
    IF s = <<>> THEN <<>>
    ELSE InsertDesc(s[Len(s)], SortedDesc(SubSeq(s, 1, Len(s) - 1)))

\* sorted(cards, key=lambda c: c.rank.value, reverse=True)
SortCards(cards) ==
    LET keyed == [i \in 1..Len(cards) |-> [key |-> <<cards[i].rank>>, val |-> cards[i]]]
        srt == SortedDesc(keyed)
    IN  [i \in 1..Len(cards) |-> srt[i].val]

\* sorted(counts.items(), key=lambda x: (x[1], x[0]), reverse=True)
SortCounts(items) ==
    LET keyed == [i \in 1..Len(items) |-> [key |-> <<items[i][2], items[i][1]>>, val |-> items[i]]]
        srt == SortedDesc(keyed)
    IN  [i \in 1..Len(items) |-> srt[i].val]

RECURSIVE SetToSeq(_)
SetToSeq(S) ==
    IF S = {} THEN <<>>
    ELSE LET x == CHOOSE y \in S : TRUE IN <<x>> \o SetToSeq(S \ {x})

\* variant of the kicker selection: only the highest remaining rank is kept
SelectNotInTopOnly(ranks, excl) ==
    SubSeq(SelectSeq(ranks, LAMBDA x : x \notin excl), 1, 1)

\* the kickers of _evaluate_five: [r for r in ranks if r != ...], ranks descending
SelectNotIn(ranks, excl) == SelectSeq(ranks, LAMBDA x : x \notin excl)

\* variant of the straight test: the Ace never plays low
IsStraightAceHigh(ranks) ==
    Cardinality({ranks[i] : i \in 1..5}) = 5 /\ ranks[1] - ranks[5] = 4

\* the straight test of _evaluate_five on the ranks as dealt (Ace = 14)
IsStraight(ranks) ==
    \/ Cardinality({ranks[i] : i \in 1..5}) = 5 /\ ranks[1] - ranks[5] = 4
    \/ ranks = <<14, 5, 4, 3, 2>>

\* sorted_counts of _evaluate_five: the items <<rank, count>>, by (count, rank) descending
SortedCounts(ranks) ==
    SortCounts(SetToSeq({<<r, Cardinality({i \in 1..5 : ranks[i] = r})>> :
                             r \in {ranks[i] : i \in 1..5}}))

\* variant of the decision chain: three of a kind is tested before the full house
FiveCategoryTripsFirst(ranks, is_flush, is_straight, sorted_counts) ==
    IF is_straight /\ is_flush
    THEN IF ranks[1] = 14 /\ ranks[5] = 10
         THEN <<ROYAL_FLUSH, <<>>>>
         ELSE <<STRAIGHT_FLUSH, ranks>>
    ELSE IF sorted_counts[1][2] = 4
    THEN <<FOUR_OF_A_KIND, <<sorted_counts[1][1], sorted_counts[2][1]>>>>
    ELSE IF sorted_counts[1][2] = 3
    THEN <<THREE_OF_A_KIND,
           <<sorted_counts[1][1]>> \o SelectNotIn(ranks, {sorted_counts[1][1]})>>
    ELSE IF is_flush THEN <<FLUSH, ranks>>
    ELSE IF is_straight THEN <<STRAIGHT, ranks>>
    ELSE IF sorted_counts[1][2] = 2 /\ sorted_counts[2][2] = 2
    THEN <<TWO_PAIR,
           <<sorted_counts[1][1], sorted_counts[2][1]>>
              \o SelectNotIn(ranks, {sorted_counts[1][1], sorted_counts[2][1]})>>
    ELSE IF sorted_counts[1][2] = 2
    THEN <<PAIR, <<sorted_counts[1][1]>> \o SelectNotIn(ranks, {sorted_counts[1][1]})>>
    ELSE <<HIGH_CARD, ranks>>

\* the decision chain of _evaluate_five
FiveCategory(ranks, is_flush, is_straight, sorted_counts) ==
    IF is_straight /\ is_flush
    THEN IF ranks[1] = 14 /\ ranks[5] = 10
         THEN <<ROYAL_FLUSH, <<>>>>
         ELSE <<STRAIGHT_FLUSH, ranks>>
    ELSE IF sorted_counts[1][2] = 4
    THEN <<FOUR_OF_A_KIND, <<sorted_counts[1][1], sorted_counts[2][1]>>>>
    ELSE IF sorted_counts[1][2] = 3 /\ sorted_counts[2][2] = 2
    THEN <<FULL_HOUSE, <<sorted_counts[1][1], sorted_counts[2][1]>>>>
    ELSE IF is_flush THEN <<FLUSH, ranks>>
    ELSE IF is_straight THEN <<STRAIGHT, ranks>>
    ELSE IF sorted_counts[1][2] = 3
    THEN <<THREE_OF_A_KIND,
           <<sorted_counts[1][1]>> \o SelectNotIn(ranks, {sorted_counts[1][1]})>>
    ELSE IF sorted_counts[1][2] = 2 /\ sorted_counts[2][2] = 2
    THEN <<TWO_PAIR,
           <<sorted_counts[1][1], sorted_counts[2][1]>>
              \o SelectNotIn(ranks, {sorted_counts[1][1], sorted_counts[2][1]})>>
    ELSE IF sorted_counts[1][2] = 2
    THEN <<PAIR, <<sorted_counts[1][1]>> \o SelectNotIn(ranks, {sorted_counts[1][1]})>>
    ELSE <<HIGH_CARD, ranks>>

\* _evaluate_five(cards): cards are 5 cards sorted by rank, descending
_evaluate_five(cards) ==
    LET ranks0 == [i \in 1..5 |-> cards[i].rank]
        ranks == IF ranks0 = <<14, 5, 4, 3, 2>> THEN <<5, 4, 3, 2, 1>> ELSE ranks0
    IN  FiveCategory(ranks, Cardinality({cards[i].suit : i \in 1..5}) = 1,
                     IsStraight(ranks0), SortedCounts(ranks))

\* itertools.combinations(range(lo, n + 1), k): index tuples in lexicographic order
RECURSIVE Combinations(_, _, _)
PrefixAll(x, seqs) == [i \in 1..Len(seqs) |-> <<x>> \o seqs[i]]

Combinations(lo, n, k) ==
    IF k = 0 THEN << <<>> >>
    ELSE IF n - lo + 1 < k THEN <<>>
    ELSE PrefixAll(lo, Combinations(lo + 1, n, k - 1)) \o Combinations(lo + 1, n, k)

CombosOf == [n \in 5..7 |-> Combinations(1, n, 5)]

\* variant of the loop body of evaluate: the best category and the best
\* tiebreakers are kept apart, each the largest seen
BetterOfMixed(best, r) ==
    <<IF r[1] > best[1] THEN r[1] ELSE best[1],
      IF ListGT(r[2], best[2]) THEN r[2] ELSE best[2]>>

\* one pass of the loop of evaluate: the best so far against a combination's result
BetterOf(best, r) ==
    IF r[1] > best[1] THEN r
    ELSE IF r[1] = best[1] /\ ListGT(r[2], best[2]) THEN <<best[1], r[2]>>
    ELSE best

\* the loop of evaluate over the combinations, from combination i on
RECURSIVE EvalLoop(_, _, _, _)
EvalLoop(cards, combos, i, best) ==
    IF i > Len(combos) THEN best
    ELSE EvalLoop(cards, combos, i + 1,
                  BetterOf(best,
                           _evaluate_five(SortCards([j \in 1..5 |-> cards[combos[i][j]]]))))

\* HandEvaluator.evaluate(cards) = <<category value, tiebreakers>>
evaluate(cards) ==
    IF Len(cards) < 5 THEN <<HIGH_CARD, <<>>>>
    ELSE EvalLoop(cards, CombosOf[Len(cards)], 1, <<HIGH_CARD, <<>>>>)

\* HandRank(v).name.replace("_", " ").title()
HandRankTitle(v) ==
    CASE v = HIGH_CARD -> "High Card"
      [] v = PAIR -> "Pair"
      [] v = TWO_PAIR -> "Two Pair"
      [] v = THREE_OF_A_KIND -> "Three Of A Kind"
      [] v = STRAIGHT -> "Straight"
      [] v = FLUSH -> "Flush"
      [] v = FULL_HOUSE -> "Full House"
      [] v = FOUR_OF_A_KIND -> "Four Of A Kind"
      [] v = STRAIGHT_FLUSH -> "Straight Flush"
      [] v = ROYAL_FLUSH -> "Royal Flush"

(* ---------------------------------------------------------------------- *)
(* Decks                                                                   *)
(* ---------------------------------------------------------------------- *)
\* reset_deck shuffles the 52 cards; a hand pops at most 2 * seats + 5 cards from
\* the end of the list, so a shuffle is modelled by the cards it puts at the end.
\* Each deck is written in pop order (the first card written is dealt first).
PopOrder1 ==
    << Card(2, "C"), Card(13, "S"), Card(7, "H"), Card(13, "D"), Card(3, "D"),
       Card(7, "D"), Card(9, "C"), Card(4, "S"), Card(11, "H"), Card(12, "C"),
       Card(5, "H"), Card(6, "C"), Card(10, "D"), Card(8, "S"), Card(2, "H") >>

PopOrder2 ==
    << Card(2, "C"), Card(3, "D"), Card(4, "H"), Card(6, "S"), Card(7, "C"),
       Card(8, "D"), Card(14, "S"), Card(13, "H"), Card(12, "D"), Card(11, "C"),
       Card(10, "S"), Card(9, "H"), Card(5, "C"), Card(2, "D"), Card(3, "S") >>

Reverse(s) == [i \in 1..Len(s) |-> s[Len(s) + 1 - i]]

\* the shuffles reset_deck may produce
Decks == {Reverse(PopOrder1), Reverse(PopOrder2)}

\* the hole cards of the k-th of n dealt players and the full board, when n
\* players are dealt in from shuffle d (n = 0: no hole cards were dealt)
DealtSeven(d, n, k) ==
    LET pop(j) == d[Len(d) + 1 - j]
    IN  (IF n = 0 THEN <<>> ELSE <<pop(k), pop(n + k)>>)
        \o [j \in 1..5 |-> pop(2 * n + j)]

\* HandEvaluator.evaluate, tabulated once over the hands the shuffles can deal
EvalMemo ==
    LET seats == IF RingSeats > MaxPlayers THEN RingSeats ELSE MaxPlayers
        hands == {DealtSeven(d, n, k) : d \in Decks, n \in 2..seats, k \in 1..seats}
                 \cup {DealtSeven(d, 0, 1) : d \in Decks}
    IN  [cards \in hands |-> evaluate(cards)]

\* HandEvaluator.evaluate(cards) as _resolve_hand calls it
EvaluateHand(cards) ==
    IF cards \in DOMAIN EvalMemo THEN EvalMemo[cards] ELSE evaluate(cards)

(* ---------------------------------------------------------------------- *)
(* PokerEngine: the engine as a record e, one field per attribute          *)
(* ---------------------------------------------------------------------- *)
\* Player(id, name, chips) with the dataclass defaults
NewPlayer(pid, chips) ==
    [id |-> pid, chips |-> chips, hand |-> <<>>, is_active |-> TRUE,
     current_bet |-> 0, is_all_in |-> FALSE, has_acted |-> FALSE]

\* PokerEngine.__init__ (winners / winning_hand_rank read through getattr defaults)
NewEngine ==
    [players |-> <<>>, community_cards |-> <<>>, deck |-> <<>>, pot |-> 0,
     current_bet |-> 0, state |-> "PREFLOP", dealer_idx |-> 0,
     current_player_idx |-> 0, min_raise |-> big_blind, raise_count |-> 0,
     winners |-> <<>>, winning_hand_rank |-> ""]

NumSeats(e) == Len(e.players)

Seats(e) == 0..(NumSeats(e) - 1)

\* p.is_active and not p.is_all_in
CanAct(p) == p.is_active /\ ~p.is_all_in

\* the first seat, cyclically from seat `from`, whose player satisfies CanAct;
\* `from` itself when there is none
RECURSIVE FirstCanAct(_, _, _)
FirstCanAct(e, from, steps) ==
    IF steps >= NumSeats(e) \/ CanAct(e.players[from + 1]) THEN from
    ELSE FirstCanAct(e, (from + 1) % NumSeats(e), steps + 1)

\* variant of _place_bet_logic: the bets of the players already all-in are
\* levelled to the bet that results
PlaceBetLevelsAllIn(e, i, amount) ==
    LET p == e.players[i + 1]
        actual == Min(p.chips, amount)
        p1 == [p EXCEPT !.chips = @ - actual,
                        !.current_bet = @ + actual,
                        !.is_all_in = IF p.chips - actual = 0 THEN TRUE ELSE @]
        over == p1.current_bet > e.current_bet
        diff == p1.current_bet - e.current_bet
        bet == IF over THEN p1.current_bet ELSE e.current_bet
    IN  [e EXCEPT !.players = [k \in 1..Len(e.players) |->
                                 IF k = i + 1 THEN p1
                                 ELSE IF e.players[k].is_all_in
                                      THEN [e.players[k] EXCEPT !.current_bet = bet]
                                      ELSE e.players[k]],
                  !.pot = @ + actual,
                  !.min_raise = IF over /\ diff > @ THEN diff ELSE @,
                  !.current_bet = bet]

\* variant of _place_bet_logic: min_raise follows the last increment, larger or not
PlaceBetLastIncrement(e, i, amount) ==
    LET p == e.players[i + 1]
        actual == Min(p.chips, amount)
        p1 == [p EXCEPT !.chips = @ - actual,
                        !.current_bet = @ + actual,
                        !.is_all_in = IF p.chips - actual = 0 THEN TRUE ELSE @]
        over == p1.current_bet > e.current_bet
        diff == p1.current_bet - e.current_bet
    IN  [e EXCEPT !.players[i + 1] = p1,
                  !.pot = @ + actual,
                  !.min_raise = IF over THEN diff ELSE @,
                  !.current_bet = IF over THEN p1.current_bet ELSE @]

\* variant of _place_bet_logic: the amount asked for is posted whatever the stack
PlaceBetUncapped(e, i, amount) ==
    LET p == e.players[i + 1]
        p1 == [p EXCEPT !.chips = @ - amount,
                        !.current_bet = @ + amount,
                        !.is_all_in = IF p.chips - amount = 0 THEN TRUE ELSE @]
        over == p1.current_bet > e.current_bet
        diff == p1.current_bet - e.current_bet
    IN  [e EXCEPT !.players[i + 1] = p1,
                  !.pot = @ + amount,
                  !.min_raise = IF over /\ diff > @ THEN diff ELSE @,
                  !.current_bet = IF over THEN p1.current_bet ELSE @]

\* _place_bet_logic(player at seat i, amount)
_place_bet_logic(e, i, amount) ==
    LET p == e.players[i + 1]
        actual == Min(p.chips, amount)
        p1 == [p EXCEPT !.chips = @ - actual,
                        !.current_bet = @ + actual,
                        !.is_all_in = IF p.chips - actual = 0 THEN TRUE ELSE @]
        over == p1.current_bet > e.current_bet
        diff == p1.current_bet - e.current_bet
    IN  [e EXCEPT !.players[i + 1] = p1,
                  !.pot = @ + actual,
                  !.min_raise = IF over /\ diff > @ THEN diff ELSE @,
                  !.current_bet = IF over THEN p1.current_bet ELSE @]

\* one entry of `results` in _resolve_hand, with its sort key (rank.value, tiebreakers)
ResultEntry(seat, v) ==
    [key |-> <<v[1]>> \o v[2], val |-> [seat |-> seat, rank |-> v[1], tb |-> v[2]]]

Unkey(srt) == [k \in 1..Len(srt) |-> srt[k].val]

\* variant of `results`: every player that was dealt in is evaluated, folded or not
ShowdownResultsAllDealt(e) ==
    LET act == SelectSeq([i \in 1..Len(e.players) |-> i - 1],
                         LAMBDA i : e.players[i + 1].hand # <<>>)
    IN  Unkey(SortedDesc([k \in 1..Len(act) |->
                ResultEntry(act[k],
                            EvaluateHand(e.players[act[k] + 1].hand \o e.community_cards))]))

\* `results` of _resolve_hand: the active players' hands evaluated, sorted descending
ShowdownResults(e) ==
    LET act == SelectSeq([i \in 1..Len(e.players) |-> i - 1],
                         LAMBDA i : e.players[i + 1].is_active)
    IN  Unkey(SortedDesc([k \in 1..Len(act) |->
                ResultEntry(act[k],
                            EvaluateHand(e.players[act[k] + 1].hand \o e.community_cards))]))

\* winners_list of _resolve_hand: the seats whose result equals the best one
WinnersList(results) ==
    LET w == SelectSeq(results,
                       LAMBDA r : r.rank = results[1].rank /\ r.tb = results[1].tb)
    IN  [k \in 1..Len(w) |-> w[k].seat]

\* variant of Payout: the odd chips of a split are paid to nobody
PayoutNoOddChips(pot, winners_list, i) ==
    IF \E k \in 1..Len(winners_list) : winners_list[k] = i
    THEN pot \div Len(winners_list) ELSE 0

\* variant of Payout: the odd chips of a split go to the last winner
PayoutOddChipsLast(pot, winners_list, i) ==
    (IF \E k \in 1..Len(winners_list) : winners_list[k] = i
        THEN pot \div Len(winners_list) ELSE 0)
    + (IF winners_list[Len(winners_list)] = i THEN pot % Len(winners_list) ELSE 0)

\* the chips seat i receives from the pot at a showdown won by winners_list
Payout(pot, winners_list, i) ==
    (IF \E k \in 1..Len(winners_list) : winners_list[k] = i
        THEN pot \div Len(winners_list) ELSE 0)
    + (IF winners_list[1] = i THEN pot % Len(winners_list) ELSE 0)

\* the end of the showdown branch of _resolve_hand: pay, record, FINISHED
PayWinners(e, best_rank, winners_list) ==
    [e EXCEPT !.players = [k \in 1..Len(e.players) |->
                  [e.players[k] EXCEPT !.chips = @ + Payout(e.pot, winners_list, k - 1)]],
              !.winners = [k \in 1..Len(winners_list) |-> e.players[winners_list[k] + 1].id],
              !.winning_hand_rank = HandRankTitle(best_rank),
              !.state = "FINISHED"]

\* the showdown branch of _resolve_hand, from the sorted results on
ShowdownBranch(e, results) ==
    IF results = <<>>
    THEN [e EXCEPT !.state = "SHOWDOWN", !.winners = <<>>, !.winning_hand_rank = ""]
    ELSE PayWinners(e, results[1].rank, WinnersList(results))

\* variant of _resolve_hand: a fold-out leaves the table ready for a new hand
\* (PREFLOP) instead of FINISHED
ResolveFoldOutToPreflop(e, winner_by_fold) ==
    IF winner_by_fold # -1
    THEN [e EXCEPT !.players[winner_by_fold + 1].chips = @ + e.pot,
                   !.winners = <<e.players[winner_by_fold + 1].id>>,
                   !.winning_hand_rank = "Opponents Folded",
                   !.state = "PREFLOP"]
    ELSE ShowdownBranch(e, ShowdownResults(e))

\* _resolve_hand(winner_by_fold): winner_by_fold is a seat, or -1 for None
_resolve_hand(e, winner_by_fold) ==
    IF winner_by_fold # -1
    THEN [e EXCEPT !.players[winner_by_fold + 1].chips = @ + e.pot,
                   !.winners = <<e.players[winner_by_fold + 1].id>>,
                   !.winning_hand_rank = "Opponents Folded",
                   !.state = "FINISHED"]
    ELSE ShowdownBranch(e, ShowdownResults(e))

\* the players that can still act: active and not all-in
ActivePlayers(e) == {i \in Seats(e) : CanAct(e.players[i + 1])}

\* the players that have not folded
ActivesTotal(e) == {i \in Seats(e) : e.players[i + 1].is_active}

\* self.community_cards gets n cards popped from the deck
RECURSIVE DealCommunity(_, _)
DealCommunity(e, n) ==
    IF n = 0 THEN e
    ELSE DealCommunity([e EXCEPT !.deck = SubSeq(e.deck, 1, Len(e.deck) - 1),
                                 !.community_cards = Append(@, e.deck[Len(e.deck)])],
                       n - 1)

\* variant of the head of _next_street: raise_count runs on across streets
ResetStreetKeepsRaises(e) ==
    [e EXCEPT !.current_bet = 0,
              !.min_raise = big_blind,
              !.players = [k \in 1..Len(e.players) |->
                  [e.players[k] EXCEPT !.current_bet = 0, !.has_acted = FALSE]]]

\* the head of _next_street: the street's bets and counters are reset
ResetStreet(e) ==
    [e EXCEPT !.current_bet = 0,
              !.min_raise = big_blind,
              !.raise_count = 0,
              !.players = [k \in 1..Len(e.players) |->
                  [e.players[k] EXCEPT !.current_bet = 0, !.has_acted = FALSE]]]

\* the seat _next_street puts on turn: the first that can act from dealer + 1;
\* when nobody can act its loop steps once and breaks
StreetFirstSeat(e) ==
    LET start == (e.dealer_idx + 1) % NumSeats(e)
    IN  IF CanAct(e.players[start + 1]) THEN start
        ELSE IF ActivePlayers(e) = {} THEN (start + 1) % NumSeats(e)
        ELSE FirstCanAct(e, start, 0)

\* variant of DealStreet: the flop is dealt one card, like the turn and the river
DealStreetOneEach(old_state, e) ==
    CASE old_state = "PREFLOP" -> DealCommunity([e EXCEPT !.state = "FLOP"], 1)
      [] old_state = "FLOP" -> DealCommunity([e EXCEPT !.state = "TURN"], 1)
      [] old_state = "TURN" -> DealCommunity([e EXCEPT !.state = "RIVER"], 1)
      [] OTHER -> e

\* the street marker moves on and the street's community cards are dealt
DealStreet(old_state, e) ==
    CASE old_state = "PREFLOP" -> DealCommunity([e EXCEPT !.state = "FLOP"], 3)
      [] old_state = "FLOP" -> DealCommunity([e EXCEPT !.state = "TURN"], 1)
      [] old_state = "TURN" -> DealCommunity([e EXCEPT !.state = "RIVER"], 1)
      [] OTHER -> e

\* _next_street, and its loop `while self.state != FINISHED: self._next_street()`.
\* _resolve_hand leaves SHOWDOWN only when no player is active; the loop then
\* recurses without end (RecursionError), each pass leaving the same fields.
RECURSIVE _next_street(_)
RECURSIVE RunOut(_)
RunOut(e) ==
    IF e.state = "FINISHED" \/ e.state = "SHOWDOWN" THEN e
    ELSE RunOut(_next_street(e))

\* variant of RunOutIfNeeded: the board is run out only when nobody can act
RunOutIfNobody(e) ==
    IF Cardinality(ActivePlayers(e)) < 1 THEN RunOut(e) ELSE e

\* the tail of _next_street: run the board out when fewer than 2 players can act
RunOutIfNeeded(e) ==
    IF Cardinality(ActivePlayers(e)) < 2 THEN RunOut(e) ELSE e

\* _next_street after the reset: showdown on the river, else deal
NextStreetFrom(old_state, e) ==
    IF old_state = "RIVER" THEN _resolve_hand(e, -1)
    ELSE RunOutIfNeeded(DealStreet(old_state, e))

SetTurn(e, idx) == [e EXCEPT !.current_player_idx = idx]

_next_street(e) ==
    NextStreetFrom(e.state, SetTurn(ResetStreet(e), StreetFirstSeat(ResetStreet(e))))

\* variant of _advance_turn: no uncontested award when one player is left
AdvanceTurnNoFoldOut(e) ==
    IF \/ /\ \A i \in ActivePlayers(e) : e.players[i + 1].current_bet = e.current_bet
          /\ \A i \in ActivePlayers(e) : e.players[i + 1].has_acted
       \/ ActivePlayers(e) = {}
    THEN _next_street(e)
    ELSE SetTurn(e, FirstCanAct(e, (e.current_player_idx + 1) % NumSeats(e), 0))

\* variant of _advance_turn: the street ends on matched bets alone
AdvanceTurnBetsOnly(e) ==
    IF Cardinality(ActivesTotal(e)) = 1
    THEN _resolve_hand(e, CHOOSE i \in ActivesTotal(e) : TRUE)
    ELSE IF \/ \A i \in ActivePlayers(e) : e.players[i + 1].current_bet = e.current_bet
            \/ ActivePlayers(e) = {}
    THEN _next_street(e)
    ELSE SetTurn(e, FirstCanAct(e, (e.current_player_idx + 1) % NumSeats(e), 0))

\* variant of _advance_turn: the turn passes to the next seat, whoever sits there
AdvanceTurnNextSeat(e) ==
    IF Cardinality(ActivesTotal(e)) = 1
    THEN _resolve_hand(e, CHOOSE i \in ActivesTotal(e) : TRUE)
    ELSE IF \/ /\ \A i \in ActivePlayers(e) : e.players[i + 1].current_bet = e.current_bet
               /\ \A i \in ActivePlayers(e) : e.players[i + 1].has_acted
            \/ ActivePlayers(e) = {}
    THEN _next_street(e)
    ELSE SetTurn(e, (e.current_player_idx + 1) % NumSeats(e))

\* _advance_turn
_advance_turn(e) ==
    IF Cardinality(ActivesTotal(e)) = 1
    THEN _resolve_hand(e, CHOOSE i \in ActivesTotal(e) : TRUE)
    ELSE IF \/ /\ \A i \in ActivePlayers(e) : e.players[i + 1].current_bet = e.current_bet
               /\ \A i \in ActivePlayers(e) : e.players[i + 1].has_acted
            \/ ActivePlayers(e) = {}
    THEN _next_street(e)
    ELSE SetTurn(e, FirstCanAct(e, (e.current_player_idx + 1) % NumSeats(e), 0))

\* the seat of the first player with this id, -1 for None
SeatOf(e, pid) ==
    IF \E i \in Seats(e) : e.players[i + 1].id = pid
    THEN CHOOSE i \in Seats(e) :
            /\ e.players[i + 1].id = pid
            /\ \A j \in Seats(e) : e.players[j + 1].id = pid => i <= j
    ELSE -1

\* variant of MarkActed: a raise leaves the other players' has_acted as it was
MarkActedOnly(e, i, action) ==
    [e EXCEPT !.players[i + 1].has_acted = TRUE]

\* variant of the has_acted bookkeeping: every action re-opens the betting
MarkActedReopens(e, i, action) ==
    [e EXCEPT !.players = [k \in 1..Len(e.players) |->
        IF k = i + 1 THEN [e.players[k] EXCEPT !.has_acted = TRUE]
        ELSE IF CanAct(e.players[k])
        THEN [e.players[k] EXCEPT !.has_acted = FALSE]
        ELSE e.players[k]]]

\* p.has_acted = True, and after a raise or an all-in has_acted = False for
\* every other player that can act
MarkActed(e, i, action) ==
    [e EXCEPT !.players = [k \in 1..Len(e.players) |->
        IF k = i + 1 THEN [e.players[k] EXCEPT !.has_acted = TRUE]
        ELSE IF action \in {"raise", "allin"} /\ CanAct(e.players[k])
        THEN [e.players[k] EXCEPT !.has_acted = FALSE]
        ELSE e.players[k]]]

\* what the call leaves: the engine, and the error it raised ("none": it returned)
Returned(e) == [err |-> IF e.state = "SHOWDOWN" THEN "RecursionError" ELSE "none", e |-> e]

Raised(err, e) == [err |-> err, e |-> e]

\* the end of player_action once the action's branch is through
FinishAction(e, i, action) == Returned(_advance_turn(MarkActed(e, i, action)))

\* self.raise_count += 1
CountRaise(e) == [e EXCEPT !.raise_count = @ + 1]

\* variant of the 'raise' branch: a raise need only exceed the street bet
RaiseNoMinimum(e, i, amount) ==
    IF e.raise_count >= max_raises_per_street
    THEN Raised("raise_cap", e)
    ELSE IF /\ amount <= e.current_bet
            /\ amount < e.players[i + 1].chips + e.players[i + 1].current_bet
    THEN Raised("raise_too_small", e)
    ELSE IF amount - e.players[i + 1].current_bet > e.players[i + 1].chips
    THEN Raised("not_enough_chips", e)
    ELSE FinishAction(
            CountRaise(_place_bet_logic(e, i, amount - e.players[i + 1].current_bet)),
            i, "raise")

\* variant of the 'raise' branch: the raise is counted before its size is checked
RaiseCountedFirst(e, i, amount) ==
    IF e.raise_count >= max_raises_per_street
    THEN Raised("raise_cap", e)
    ELSE IF /\ amount < e.current_bet + e.min_raise
            /\ amount < e.players[i + 1].chips + e.players[i + 1].current_bet
    THEN Raised("raise_too_small", CountRaise(e))
    ELSE IF amount - e.players[i + 1].current_bet > e.players[i + 1].chips
    THEN Raised("not_enough_chips", CountRaise(e))
    ELSE FinishAction(
            CountRaise(_place_bet_logic(e, i, amount - e.players[i + 1].current_bet)),
            i, "raise")

\* variant of the 'raise' branch: the cap lets one raise too many through
RaiseCapOffByOne(e, i, amount) ==
    IF e.raise_count > max_raises_per_street
    THEN Raised("raise_cap", e)
    ELSE IF /\ amount < e.current_bet + e.min_raise
            /\ amount < e.players[i + 1].chips + e.players[i + 1].current_bet
    THEN Raised("raise_too_small", e)
    ELSE IF amount - e.players[i + 1].current_bet > e.players[i + 1].chips
    THEN Raised("not_enough_chips", e)
    ELSE FinishAction(
            CountRaise(_place_bet_logic(e, i, amount - e.players[i + 1].current_bet)),
            i, "raise")

\* the 'raise' branch of player_action
RaiseAction(e, i, amount) ==
    IF e.raise_count >= max_raises_per_street
    THEN Raised("raise_cap", e)
    ELSE IF /\ amount < e.current_bet + e.min_raise
            /\ amount < e.players[i + 1].chips + e.players[i + 1].current_bet
    THEN Raised("raise_too_small", e)
    ELSE IF amount - e.players[i + 1].current_bet > e.players[i + 1].chips
    THEN Raised("not_enough_chips", e)
    ELSE FinishAction(
            CountRaise(_place_bet_logic(e, i, amount - e.players[i + 1].current_bet)),
            i, "raise")

\* variant of the 'allin' branch: every all-in counts as a raise
AllinAlwaysCounts(e, i) ==
    FinishAction(_place_bet_logic(CountRaise(e), i, e.players[i + 1].chips), i, "allin")

\* the 'allin' branch of player_action
AllinAction(e, i) ==
    FinishAction(
        _place_bet_logic(
            IF e.players[i + 1].chips + e.players[i + 1].current_bet > e.current_bet
            THEN CountRaise(e) ELSE e,
            i, e.players[i + 1].chips),
        i, "allin")

\* the 'fold' branch
FoldAction(e, i) ==
    FinishAction([e EXCEPT !.players[i + 1].is_active = FALSE], i, "fold")

\* variant of the 'check' branch: a check is accepted whatever the player owes
CheckAlways(e, i) == FinishAction(e, i, "check")

\* the 'check' branch
CheckAction(e, i) ==
    IF e.players[i + 1].current_bet < e.current_bet
    THEN Raised("cannot_check", e)
    ELSE FinishAction(e, i, "check")

\* variant of the 'call' branch: the whole street bet is posted, not the shortfall
CallPostsStreetBet(e, i) ==
    FinishAction(_place_bet_logic(e, i, e.current_bet), i, "call")

\* the 'call' branch
CallAction(e, i) ==
    FinishAction(_place_bet_logic(e, i, e.current_bet - e.players[i + 1].current_bet),
                 i, "call")

\* variant of player_action: whoever is found acts, on turn or not
ActionAtAnySeat(e, i, action, amount) ==
    IF i = -1 THEN Raised("player_not_found", e)
    ELSE CASE action = "fold" -> FoldAction(e, i)
           [] action = "check" -> CheckAction(e, i)
           [] action = "call" -> CallAction(e, i)
           [] action = "raise" -> RaiseAction(e, i, amount)
           [] action = "allin" -> AllinAction(e, i)

\* player_action once the player is found at seat i
ActionAt(e, i, action, amount) ==
    IF i = -1 THEN Raised("player_not_found", e)
    ELSE IF i # e.current_player_idx THEN Raised("not_your_turn", e)
    ELSE CASE action = "fold" -> FoldAction(e, i)
           [] action = "check" -> CheckAction(e, i)
           [] action = "call" -> CallAction(e, i)
           [] action = "raise" -> RaiseAction(e, i, amount)
           [] action = "allin" -> AllinAction(e, i)

\* player_action(player_id, action, amount) = [err, e]: the error raised
\* ("none" when the call returns) and the engine after the call
player_action(e, pid, action, amount) == ActionAt(e, SeatOf(e, pid), action, amount)

\* the two rounds of dealing one hole card to every active player
RECURSIVE DealHole(_, _)
DealHole(e, k) ==
    IF k >= 2 * NumSeats(e) THEN e
    ELSE IF e.players[(k % NumSeats(e)) + 1].is_active
    THEN DealHole([e EXCEPT !.deck = SubSeq(e.deck, 1, Len(e.deck) - 1),
                            !.players[(k % NumSeats(e)) + 1].hand =
                                Append(@, e.deck[Len(e.deck)])],
                  k + 1)
    ELSE DealHole(e, k + 1)

\* the head of start_hand: dealer rotation, fresh deck, per-hand fields reset
ResetHand(e, shuffled) ==
    [e EXCEPT !.dealer_idx = (e.dealer_idx + 1) % NumSeats(e),
              !.deck = shuffled,
              !.community_cards = <<>>,
              !.pot = 0,
              !.current_bet = 0,
              !.min_raise = big_blind,
              !.state = "PREFLOP",
              !.winners = <<>>,
              !.winning_hand_rank = "",
              !.players = [k \in 1..Len(e.players) |->
                  [e.players[k] EXCEPT !.hand = <<>>,
                                       !.is_active = (e.players[k].chips > 0),
                                       !.current_bet = 0,
                                       !.is_all_in = FALSE,
                                       !.has_acted = FALSE]]]

\* variant of the blind posting: posting a blind counts as having acted
PostBlindsActed(e) ==
    LET sb == (e.dealer_idx + 1) % NumSeats(e)
        bb == (e.dealer_idx + 2) % NumSeats(e)
        posted == _place_bet_logic(_place_bet_logic(e, sb, small_blind), bb, big_blind)
    IN  [posted EXCEPT !.players[sb + 1].has_acted = TRUE,
                       !.players[bb + 1].has_acted = TRUE]

\* the blinds are posted from seats dealer + 1 and dealer + 2
PostBlinds(e) ==
    _place_bet_logic(
        _place_bet_logic(e, (e.dealer_idx + 1) % NumSeats(e), small_blind),
        (e.dealer_idx + 2) % NumSeats(e), big_blind)

\* variant of the tail of start_hand: the search for the first seat to act
\* starts at the small blind
OpenBettingFromSmallBlind(e) ==
    [e EXCEPT !.current_player_idx = FirstCanAct(e, (e.dealer_idx + 1) % NumSeats(e), 0),
              !.current_bet = big_blind,
              !.raise_count = 0]

\* the tail of start_hand: first seat to act, current_bet, raise_count
OpenBetting(e) ==
    [e EXCEPT !.current_player_idx = FirstCanAct(e, (e.dealer_idx + 3) % NumSeats(e), 0),
              !.current_bet = big_blind,
              !.raise_count = 0]

\* start_hand after the reset
StartFrom(e) ==
    IF Cardinality(ActivesTotal(e)) < 2
    THEN Raised("not_enough_players", e)
    ELSE Raised("none", OpenBetting(PostBlinds(DealHole(e, 0))))

\* start_hand() = [err, e], with the shuffle reset_deck produced
start_hand(e, shuffled) ==
    IF NumSeats(e) = 0 THEN Raised("ZeroDivisionError", e)
    ELSE StartFrom(ResetHand(e, shuffled))

\* add_player(player_id, name, chips)
add_player(e, pid, chips) == [e EXCEPT !.players = Append(@, NewPlayer(pid, chips))]

\* variant of is_actual_showdown: a hand won because the opponents folded counts
ShowdownOrFoldOut(e) ==
    /\ e.state \in {"SHOWDOWN", "FINISHED"}
    /\ e.winning_hand_rank # ""
    /\ e.winners # <<>>

\* is_actual_showdown of get_public_game_state
is_actual_showdown(e) ==
    /\ e.state \in {"SHOWDOWN", "FINISHED"}
    /\ e.winning_hand_rank \notin {"", "Opponents Folded"}
    /\ e.winners # <<>>

\* None in a hand given out, as a value that compares with cards
NoCard == [rank |-> 0, suit |-> "None"]

\* [None] * len(p.hand)
Masked(hand) == [k \in 1..Len(hand) |-> NoCard]

\* p_data of get_public_game_state: p.to_dict() with the hand masked or not
PlayerData(p, observer_id, reveal) ==
    [p EXCEPT !.hand = IF p.id # observer_id /\ ~(reveal /\ p.is_active)
                       THEN Masked(p.hand) ELSE p.hand]

\* get_public_game_state(observer_id)
get_public_game_state(e, observer_id) ==
    [state |-> e.state,
     pot |-> e.pot,
     community_cards |-> e.community_cards,
     players |-> [k \in 1..Len(e.players) |->
                    PlayerData(e.players[k], observer_id, is_actual_showdown(e))],
     current_player_idx |-> e.current_player_idx,
     current_bet |-> e.current_bet,
     min_raise |-> e.min_raise,
     raise_count |-> e.raise_count,
     max_raises_per_street |-> max_raises_per_street,
     can_raise |-> (e.raise_count < max_raises_per_street),
     winners |-> e.winners,
     winning_hand |-> e.winning_hand_rank]

(* ---------------------------------------------------------------------- *)
(* The state machine                                                       *)
(* ---------------------------------------------------------------------- *)
VARIABLES
    players, community_cards, deck, pot, current_bet, state, dealer_idx,
    current_player_idx, min_raise, raise_count, winners, winning_hand_rank,
    \* history, not part of the engine:
    hand_no,      \* start_hand calls made so far
    hand_ok,      \* the last start_hand call returned without an error
    start_total,  \* the sum of the players' chips just before that call
    late_calls,   \* player_action calls made since the hand was FINISHED
    next_calls,   \* player_action calls made on the hand, if it is not the first
    last,         \* the last call: [op, action (of an accepted player_action), err]
    \* the evaluator called on its own:
    eval_cards,   \* the list of cards handed to HandEvaluator.evaluate
    eval_result,  \* what it returned, <<category value, tiebreakers>>; <<>> before the call
    \* the server of main.py around the engine:
    tasks,        \* the check_ai_turn loops started so far, each with its position and locals
    requests,     \* client requests handled so far
    version,      \* calls that mutated the engine so far
    player_acted  \* the last player_acted event emitted

engine_vars ==
    <<players, community_cards, deck, pot, current_bet, state, dealer_idx,
      current_player_idx, min_raise, raise_count, winners, winning_hand_rank>>

eval_vars == <<eval_cards, eval_result>>

server_vars == <<tasks, requests, version, player_acted>>

vars ==
    <<engine_vars, hand_no, hand_ok, start_total, late_calls, next_calls, last, eval_vars,
      server_vars>>

\* the engine object as a record
Engine ==
    [players |-> players, community_cards |-> community_cards, deck |-> deck,
     pot |-> pot, current_bet |-> current_bet, state |-> state,
     dealer_idx |-> dealer_idx, current_player_idx |-> current_player_idx,
     min_raise |-> min_raise, raise_count |-> raise_count, winners |-> winners,
     winning_hand_rank |-> winning_hand_rank]

SetEngine(e) ==
    /\ players' = e.players
    /\ community_cards' = e.community_cards
    /\ deck' = e.deck
    /\ pot' = e.pot
    /\ current_bet' = e.current_bet
    /\ state' = e.state
    /\ dealer_idx' = e.dealer_idx
    /\ current_player_idx' = e.current_player_idx
    /\ min_raise' = e.min_raise
    /\ raise_count' = e.raise_count
    /\ winners' = e.winners
    /\ winning_hand_rank' = e.winning_hand_rank

RECURSIVE SumSeq(_)
SumSeq(s) == IF s = <<>> THEN 0 ELSE s[1] + SumSeq(Tail(s))

\* sum(p.chips for p in players)
SumChips(ps) == SumSeq([k \in 1..Len(ps) |-> ps[k].chips])

\* the actions and amounts a caller submits; amount is read by 'raise' only
Actions == {"fold", "check", "call", "raise", "allin"}

Amounts == {40, 60, 80, 100}

\* the engine as PokerEngine() leaves it, no call made yet
EngineInit ==
    /\ players = NewEngine.players
    /\ community_cards = NewEngine.community_cards
    /\ deck = NewEngine.deck
    /\ pot = NewEngine.pot
    /\ current_bet = NewEngine.current_bet
    /\ state = NewEngine.state
    /\ dealer_idx = NewEngine.dealer_idx
    /\ current_player_idx = NewEngine.current_player_idx
    /\ min_raise = NewEngine.min_raise
    /\ raise_count = NewEngine.raise_count
    /\ winners = NewEngine.winners
    /\ winning_hand_rank = NewEngine.winning_hand_rank
    /\ hand_no = 0
    /\ hand_ok = FALSE
    /\ start_total = 0
    /\ late_calls = 0
    /\ next_calls = 0
    /\ last = [op |-> "init", action |-> "", err |-> "none"]

\* the server before the first request: no loop running, nothing emitted
ServerInit ==
    /\ tasks = <<>>
    /\ requests = 0
    /\ version = 0
    /\ player_acted = [player_id |-> 0, action |-> "", applied |-> TRUE, fresh |-> TRUE]

Init ==
    /\ EngineInit
    /\ ServerInit
    /\ eval_cards = <<>>
    /\ eval_result = <<>>

\* add_player, called to seat the table before the first hand
AddPlayer(chips) ==
    /\ hand_no = 0
    /\ Len(players) < MaxPlayers
    /\ SumChips(players) + chips <= MaxTableChips
    /\ SetEngine(add_player(Engine, Len(players) + 1, chips))
    /\ last' = [op |-> "add_player", action |-> "", err |-> "none"]
    /\ UNCHANGED <<hand_no, hand_ok, start_total, late_calls, next_calls, eval_vars,
                   server_vars>>

\* the engine and the history after a start_hand call that left r = [err, e]
StartHandTo(r) ==
    /\ SetEngine(r.e)
    /\ hand_ok' = (r.err = "none")
    /\ start_total' = IF r.err = "none" THEN SumChips(players) ELSE start_total
    /\ last' = [op |-> "start_hand", action |-> "", err |-> r.err]
    /\ UNCHANGED <<eval_vars, server_vars>>

\* the engine and the history after a player_action call that left r = [err, e]
PlayerActionTo(r, action) ==
    /\ SetEngine(r.e)
    /\ last' = [op |-> "player_action",
                 action |-> IF r.err = "none" THEN action ELSE "",
                 err |-> r.err]
    /\ UNCHANGED <<eval_vars, server_vars>>

\* start_hand, in any state of the engine
StartHand(shuffled) ==
    /\ hand_no < MaxHands
    /\ StartHandTo(start_hand(Engine, shuffled))
    /\ hand_no' = hand_no + 1
    /\ late_calls' = 0
    /\ next_calls' = 0

\* player_action, once a hand was started
PlayerAction(pid, action, amount) ==
    /\ hand_no > 0
    /\ state = "FINISHED" => late_calls < MaxLateCalls
    /\ hand_no > 1 => next_calls < MaxNextHandCalls
    /\ late_calls' = IF state = "FINISHED" THEN late_calls + 1 ELSE late_calls
    /\ next_calls' = IF hand_no > 1 THEN next_calls + 1 ELSE next_calls
    /\ PlayerActionTo(player_action(Engine, pid, action, amount), action)
    /\ UNCHANGED <<hand_no, hand_ok, start_total>>

Next ==
    \/ \E chips \in StartChips : AddPlayer(chips)
    \/ \E shuffled \in Decks : StartHand(shuffled)
    \/ \E pid \in 1..(Len(players) + 1), action \in Actions :
          \E amount \in (IF action = "raise" THEN Amounts ELSE {0}) :
             PlayerAction(pid, action, amount)

Spec == Init /\ [][Next]_vars

(* ---------------------------------------------------------------------- *)
(* One hand at a larger table: the same calls, with up to RingSeats seats, *)
(* one start_hand and no call after the hand is FINISHED                   *)
(* ---------------------------------------------------------------------- *)
\* add_player, called to seat the larger table
RingAddPlayer(chips) ==
    /\ hand_no = 0
    /\ Len(players) < RingSeats
    /\ SumChips(players) + chips <= MaxTableChips
    /\ SetEngine(add_player(Engine, Len(players) + 1, chips))
    /\ last' = [op |-> "add_player", action |-> "", err |-> "none"]
    /\ UNCHANGED <<hand_no, hand_ok, start_total, late_calls, next_calls, eval_vars,
                   server_vars>>

\* the one start_hand call
RingStartHand(shuffled) ==
    /\ hand_no = 0
    /\ StartHandTo(start_hand(Engine, shuffled))
    /\ hand_no' = 1
    /\ UNCHANGED <<late_calls, next_calls>>

\* player_action while the hand is being played
RingPlayerAction(pid, action, amount) ==
    /\ hand_ok
    /\ state # "FINISHED"
    /\ PlayerActionTo(player_action(Engine, pid, action, amount), action)
    /\ UNCHANGED <<hand_no, hand_ok, start_total, late_calls, next_calls>>

RingNext ==
    \/ \E chips \in StartChips : RingAddPlayer(chips)
    \/ \E shuffled \in Decks : RingStartHand(shuffled)
    \/ \E pid \in 1..(Len(players) + 1), action \in Actions :
          \E amount \in (IF action = "raise" THEN Amounts ELSE {0}) :
             RingPlayerAction(pid, action, amount)

SpecRing == Init /\ [][RingNext]_vars

\* a hand was started and is not FINISHED
InProgress == hand_ok /\ state # "FINISHED"

\* a player_action call that the engine accepts
AcceptedPlay == last'.op = "player_action" /\ last'.err = "none"

\* the hand at the larger table when the callers go on submitting actions the
\* engine accepts until the hand is FINISHED. This is WF_vars of the accepted
\* RingPlayerAction steps with its ENABLED written out: RingPlayerAction is
\* guarded by InProgress, and in every state of a hand in progress an accepted
\* call exists (the first conjunct of C37_HandTerminates).
SpecRingFair ==
    /\ Init
    /\ [][RingNext]_vars
    /\ ([]<>(~InProgress) \/ []<><<AcceptedPlay>>_vars)

(* ---------------------------------------------------------------------- *)
(* One hand at the small table, with player_action still being called      *)
(* after the hand is FINISHED                                              *)
(* ---------------------------------------------------------------------- *)
\* player_action, during the hand and up to MaxLatePlays times after it
LatePlayerAction(pid, action, amount) ==
    /\ hand_ok
    /\ state = "FINISHED" => late_calls < MaxLatePlays
    /\ late_calls' = IF state = "FINISHED" THEN late_calls + 1 ELSE late_calls
    /\ PlayerActionTo(player_action(Engine, pid, action, amount), action)
    /\ UNCHANGED <<hand_no, hand_ok, start_total, next_calls>>

LateNext ==
    \/ \E chips \in StartChips : AddPlayer(chips)
    \/ \E shuffled \in Decks : RingStartHand(shuffled)
    \/ \E pid \in 1..(Len(players) + 1), action \in Actions :
          \E amount \in (IF action = "raise" THEN Amounts ELSE {0}) :
             LatePlayerAction(pid, action, amount)

SpecLate == Init /\ [][LateNext]_vars

(* ---------------------------------------------------------------------- *)
(* One hand at the small table with a short and a deep stack: a player can  *)
(* be left with fewer chips than the bet he faces                          *)
(* ---------------------------------------------------------------------- *)
\* the stacks the players of SpecShort sit down with
ShortStacks == {50, 120}

\* add_player, called to seat the table
ShortAddPlayer(chips) ==
    /\ hand_no = 0
    /\ Len(players) < MaxPlayers
    /\ SetEngine(add_player(Engine, Len(players) + 1, chips))
    /\ last' = [op |-> "add_player", action |-> "", err |-> "none"]
    /\ UNCHANGED <<hand_no, hand_ok, start_total, late_calls, next_calls, eval_vars,
                   server_vars>>

ShortNext ==
    \/ \E chips \in ShortStacks : ShortAddPlayer(chips)
    \/ \E shuffled \in Decks : RingStartHand(shuffled)
    \/ \E pid \in 1..(Len(players) + 1), action \in Actions :
          \E amount \in (IF action = "raise" THEN Amounts ELSE {0}) :
             RingPlayerAction(pid, action, amount)

SpecShort == Init /\ [][ShortNext]_vars

(* ---------------------------------------------------------------------- *)
(* The small table with start_hand called again, in whatever state the     *)
(* first hand is (main.py start_next_hand calls it unconditionally)        *)
(* ---------------------------------------------------------------------- *)
\* start_hand: the first call, and up to MaxRestarts calls after it
RestartHand(shuffled) ==
    /\ hand_no <= MaxRestarts
    /\ hand_no > 0 => hand_ok
    /\ StartHandTo(start_hand(Engine, shuffled))
    /\ hand_no' = hand_no + 1
    /\ UNCHANGED <<late_calls, next_calls>>

\* player_action while the first hand is being played
FirstHandAction(pid, action, amount) ==
    /\ hand_no = 1
    /\ hand_ok
    /\ state # "FINISHED"
    /\ PlayerActionTo(player_action(Engine, pid, action, amount), action)
    /\ UNCHANGED <<hand_no, hand_ok, start_total, late_calls, next_calls>>

RestartNext ==
    \/ \E chips \in StartChips : AddPlayer(chips)
    \/ \E shuffled \in Decks : RestartHand(shuffled)
    \/ \E pid \in 1..(Len(players) + 1), action \in Actions :
          \E amount \in (IF action = "raise" THEN Amounts ELSE {0}) :
             FirstHandAction(pid, action, amount)

SpecRestart == Init /\ [][RestartNext]_vars

(* ---------------------------------------------------------------------- *)
(* The server of main.py: the handlers of the client requests and the      *)
(* check_ai_turn loops they start, one step per stretch of code between    *)
(* two awaits, all on the one engine                                       *)
(* ---------------------------------------------------------------------- *)
\* the chips reset_game and start_game seat every player with
StartingChips == 5000

\* current_p.id.startswith('bot_'): 'human' is player 1, 'bot_k' is player k + 1
IsBot(pid) == pid > 1

\* what the strategies decide and what the human submits (amount 0)
Decisions == {"fold", "check", "call"}

\* a check_ai_turn loop about to run its loop head
NewTask == [pc |-> "head", player_id |-> 0, action |-> "", seen |-> 0]

\* engine.players = [] and the add_player calls of reset_game
SeatTable(e) ==
    [e EXCEPT !.players = [k \in 1..ServerSeats |-> NewPlayer(k, StartingChips)]]

\* what the handlers leave alone
ServerFrame ==
    UNCHANGED <<hand_no, hand_ok, start_total, late_calls, next_calls, last, eval_vars>>

\* the engine after a call that left e, and the count of mutating calls
EngineTo(e) ==
    /\ SetEngine(e)
    /\ version' = IF e = Engine THEN version ELSE version + 1

\* reset_game (and start_game, the same code over HTTP), up to its first await
ResetGameTo(r) ==
    /\ requests < MaxRequests
    /\ requests' = requests + 1
    /\ EngineTo(r.e)
    /\ tasks' = Append(tasks, NewTask)
    /\ UNCHANGED player_acted
    /\ ServerFrame

ResetGame(shuffled) == ResetGameTo(start_hand(SeatTable(Engine), shuffled))

\* start_next_hand up to its first await: engine.start_hand() in whatever
\* state the engine is; an exception ends the handler
StartNextHandTo(r) ==
    /\ requests < MaxRequests
    /\ requests' = requests + 1
    /\ EngineTo(r.e)
    /\ tasks' = IF r.err = "none" THEN Append(tasks, NewTask) ELSE tasks
    /\ UNCHANGED player_acted
    /\ ServerFrame

StartNextHand(shuffled) == StartNextHandTo(start_hand(Engine, shuffled))

\* the player_action handler past its turn test: engine.player_action('human',
\* ...), then the player_acted event and, after the awaits, check_ai_turn;
\* an exception ends the handler
HumanActionTo(action, r) ==
    /\ EngineTo(r.e)
    /\ tasks' = IF r.err = "none" THEN Append(tasks, NewTask) ELSE tasks
    /\ player_acted' =
          IF r.err = "none"
          THEN [player_id |-> 1, action |-> action, applied |-> TRUE, fresh |-> TRUE]
          ELSE player_acted

\* the player_action handler (socket event)
HumanAction(action) ==
    /\ requests < MaxRequests
    /\ requests' = requests + 1
    /\ IF current_player_idx + 1 > Len(players)
          \/ players[current_player_idx + 1].id # 1
       THEN UNCHANGED <<engine_vars, tasks, version, player_acted>>
       ELSE HumanActionTo(action, player_action(Engine, 1, action, 0))
    /\ ServerFrame

\* check_ai_turn from the top of its loop to the await of asyncio.sleep, or
\* to one of its breaks
LoopHead(t) ==
    /\ tasks[t].pc = "head"
    /\ tasks' = [tasks EXCEPT ![t] =
          IF \/ state \in {"FINISHED", "SHOWDOWN"}
             \/ current_player_idx + 1 > Len(players)
             \/ ~IsBot(players[current_player_idx + 1].id)
             \/ ~CanAct(players[current_player_idx + 1])
          THEN [@ EXCEPT !.pc = "done"]
          ELSE [@ EXCEPT !.pc = "sleep", !.player_id = players[current_player_idx + 1].id]]
    /\ UNCHANGED <<engine_vars, requests, version, player_acted>>
    /\ ServerFrame

\* the end of the loop body: the player_acted event for the action that was
\* applied or, after an exception, for the fold that was tried in its place;
\* `seen` is the count of mutating calls when the strategy decided
Submitted(t, e, action, applied, seen) ==
    /\ EngineTo(e)
    /\ player_acted' = [player_id |-> tasks[t].player_id, action |-> action,
                        applied |-> applied, fresh |-> seen = version]
    /\ tasks' = [tasks EXCEPT ![t] = NewTask]
    /\ UNCHANGED requests
    /\ ServerFrame

\* the fallback engine.player_action(current_p.id, 'fold', 0), its exception swallowed
SubmitFallback(t, r, seen) == Submitted(t, r.e, "fold", r.err = "none", seen)

\* engine.player_action(current_p.id, decision.action, decision.amount) left r
SubmitTo(t, action, seen, r) ==
    IF r.err = "none"
    THEN Submitted(t, r.e, action, TRUE, seen)
    ELSE SubmitFallback(t, player_action(r.e, tasks[t].player_id, "fold", 0), seen)

\* check_ai_turn after the sleep when the decision comes with a chat message:
\* the state is read, the strategy decides, and the ai_thought emit is awaited
DecideAndChat(t, action) ==
    /\ tasks[t].pc = "sleep"
    /\ tasks' = [tasks EXCEPT ![t] = [@ EXCEPT !.pc = "thought", !.action = action,
                                               !.seen = version]]
    /\ UNCHANGED <<engine_vars, requests, version, player_acted>>
    /\ ServerFrame

\* check_ai_turn after the await of the ai_thought emit, to the next loop head
AfterChat(t) ==
    /\ tasks[t].pc = "thought"
    /\ SubmitTo(t, tasks[t].action, tasks[t].seen,
                player_action(Engine, tasks[t].player_id, tasks[t].action, 0))

\* check_ai_turn after the sleep when the decision has no chat message: the
\* state is read, the strategy decides and the action is submitted at once
DecideAndSubmit(t, action) ==
    /\ tasks[t].pc = "sleep"
    /\ SubmitTo(t, action, version, player_action(Engine, tasks[t].player_id, action, 0))

ServerNext ==
    \/ \E shuffled \in Decks : ResetGame(shuffled)
    \/ \E shuffled \in Decks : StartNextHand(shuffled)
    \/ \E action \in Decisions : HumanAction(action)
    \/ \E t \in 1..Len(tasks) : LoopHead(t)
    \/ \E t \in 1..Len(tasks), action \in Decisions : DecideAndChat(t, action)
    \/ \E t \in 1..Len(tasks) : AfterChat(t)
    \/ \E t \in 1..Len(tasks), action \in Decisions : DecideAndSubmit(t, action)

SpecServer == Init /\ [][ServerNext]_vars

(* ---------------------------------------------------------------------- *)
(* HandEvaluator.evaluate called on its own, on hands drawn from EvalDeck  *)
(* ---------------------------------------------------------------------- *)
\* the cards the hands are drawn from: ten clubs (wheel, straight flushes, the
\* royal flush), six diamonds, and the hearts and the spade that make trips
\* and four of a kind
EvalDeck ==
    {Card(r, "C") : r \in {2, 3, 4, 5, 6, 10, 11, 12, 13, 14}}
    \cup {Card(r, "D") : r \in {2, 3, 5, 6, 13, 14}}
    \cup {Card(2, "H"), Card(3, "H"), Card(2, "S")}

\* the cards the 6- and 7-card hands are drawn from
EvalDeckSeven ==
    {Card(r, "C") : r \in {2, 3, 4, 5, 6, 8, 14}}
    \cup {Card(r, "D") : r \in {2, 3, 6, 7, 14}}
    \cup {Card(2, "H"), Card(2, "S")}

\* the lists of distinct cards evaluate is called with: every 5-card hand of
\* EvalDeck, every 6- and 7-card hand of EvalDeckSeven
EvalHands ==
    {SetToSeq(S) : S \in {T \in SUBSET EvalDeck : Cardinality(T) = 5}}
    \cup {SetToSeq(S) : S \in {T \in SUBSET EvalDeckSeven : Cardinality(T) \in {6, 7}}}

EvalInit ==
    /\ EngineInit
    /\ ServerInit
    /\ eval_cards \in EvalHands
    /\ eval_result = <<>>

\* the call HandEvaluator.evaluate(eval_cards)
Evaluate ==
    /\ eval_result = <<>>
    /\ eval_result' = evaluate(eval_cards)
    /\ UNCHANGED <<engine_vars, hand_no, hand_ok, start_total, late_calls, next_calls,
                   last, eval_cards, server_vars>>

EvalNext == Evaluate

SpecEval == EvalInit /\ [][EvalNext]_vars

(* ---------------------------------------------------------------------- *)
(* Properties                                                              *)
(* ---------------------------------------------------------------------- *)
\* the hand in play was started by a start_hand call that returned, and no
\* player_action call was made since it finished
InHand == hand_ok /\ late_calls = 0

\* the seats of ps that have not folded
NotFolded(ps) == {i \in 0..(Len(ps) - 1) : ps[i + 1].is_active}

\* the largest element of a non-empty set of integers
MaxOf(S) == CHOOSE x \in S : \A y \in S : y <= x

\* C1: chip conservation across calls. From the return of a successful
\* start_hand, after every player_action call of that hand (accepted or
\* rejected, the resolving call included), the players' chips plus the pot
\* equal the players' chips just before that start_hand.
C1_ChipConservation ==
    InHand => SumChips(players) + pot = start_total

\* C2: full payout at resolution. Whenever a hand reaches FINISHED, by
\* fold-out or by showdown with any number of winners, the players' chips sum
\* to what they summed to just before that hand's start_hand.
C2_FullPayout ==
    (InHand /\ state = "FINISHED") => SumChips(players) = start_total

\* a showdown split among two winners with an odd chip left over
C2_Witness ==
    /\ InHand
    /\ state = "FINISHED"
    /\ winning_hand_rank # "Opponents Folded"
    /\ Len(winners) = 2
    /\ pot % 2 = 1
    /\ SumChips(players) = start_total

\* C3: on-turn invariant. After start_hand and after every player_action,
\* whenever the state is not FINISHED the player at current_player_idx is
\* active and not all-in; when nobody can act the engine has already advanced
\* to the resolution, so no such state is left waiting.
C3_OnTurn ==
    (InHand /\ state # "FINISHED") => CanAct(players[current_player_idx + 1])

\* C4: raise-count bound. In every state reachable through start_hand and
\* player_action, 0 <= raise_count <= max_raises_per_street.
C4_RaiseCountBound ==
    0 <= raise_count /\ raise_count <= max_raises_per_street

\* C5: street bet invariant. After start_hand and after every player_action
\* the street current_bet is the maximum of current_bet over the active
\* players.
C5_StreetBet ==
    (InHand /\ NotFolded(players) # {}) =>
        current_bet = MaxOf({players[i + 1].current_bet : i \in NotFolded(players)})

\* the errors player_action raises on its own checks
FailErrs ==
    {"player_not_found", "not_your_turn", "cannot_check", "raise_cap",
     "raise_too_small", "not_enough_chips"}

\* C6: failed actions are atomic. Every player_action call that fails
\* (player not found, not your turn, cannot check, raise cap reached, raise
\* too small, not enough chips) leaves every field of the engine as it was.
C6_FailedActionAtomic ==
    [][(last'.op = "player_action" /\ last'.err \in FailErrs)
          => engine_vars' = engine_vars]_vars

\* a raise was refused for want of chips in a hand with chips in the pot
C6_Witness ==
    /\ hand_ok
    /\ last.op = "player_action"
    /\ last.err = "not_enough_chips"
    /\ pot > 0
    /\ state # "FINISHED"

\* the raise of the player on turn, for one amount
RaiseOnTurn(amount) ==
    player_action(Engine, players[current_player_idx + 1].id, "raise", amount)

\* C7: raise cap. Once max_raises_per_street raises have been made in a
\* street, every further 'raise' of the player on turn fails with the
\* raise-cap error whatever the amount, and leaves raise_count unchanged.
C7_RaiseCap ==
    (hand_ok /\ raise_count >= max_raises_per_street) =>
        \A amount \in 0..MaxTableChips :
            /\ RaiseOnTurn(amount).err = "raise_cap"
            /\ RaiseOnTurn(amount).e.raise_count = raise_count

\* a raise was refused at the cap
C7_Witness ==
    /\ hand_ok
    /\ last.op = "player_action"
    /\ last.err = "raise_cap"
    /\ raise_count = max_raises_per_street
    /\ state # "FINISHED"

\* the sort key (rank.value, tiebreakers) of a player's seven cards
ValueKey(p, board) ==
    <<EvaluateHand(p.hand \o board)[1]>> \o EvaluateHand(p.hand \o board)[2]

\* the seats of ps that have not folded and whose hand no other such seat beats
BestSeats(ps, board) ==
    {i \in NotFolded(ps) :
        \A j \in NotFolded(ps) :
            ~ListGT(ValueKey(ps[j + 1], board), ValueKey(ps[i + 1], board))}

\* what seat i is paid in this step: its chips after the step less its chips
\* once the acting seat has put its bet (pot' - pot) in
PaidTo(i) ==
    players'[i + 1].chips
    - (players[i + 1].chips - (IF i = current_player_idx THEN pot' - pot ELSE 0))

\* a player_action call of a started hand that ends it in a showdown
ShowdownStep ==
    /\ hand_ok /\ late_calls = 0
    /\ state # "FINISHED"
    /\ last'.op = "player_action" /\ last'.err = "none"
    /\ state' = "FINISHED"
    /\ winning_hand_rank' # "Opponents Folded"

\* the payout of a showdown won by the seats W, n of them
ShowdownPaid(W, n) ==
    /\ n = Cardinality(W)
    /\ {winners'[k] : k \in 1..n} = {players'[i + 1].id : i \in W}
    /\ \A i \in 0..(Len(players) - 1) :
          PaidTo(i) = (IF i \in W THEN pot' \div n ELSE 0)
                      + (IF players'[i + 1].id = winners'[1] THEN pot' % n ELSE 0)

\* C8: showdown payout. At a showdown the winners are exactly the players
\* that have not folded and whose evaluator value over hole plus community
\* cards is maximal; each winner receives pot div |winners|, the first of the
\* winner list receives pot mod |winners| on top, nobody else's chips change,
\* and nothing depends on what a winner put in (no side pots).
C8_ShowdownPayout ==
    [][ShowdownStep =>
          ShowdownPaid(BestSeats(players', community_cards'), Len(winners'))]_vars

\* a showdown won outright by an all-in player against one that still had
\* chips behind: the whole pot is the winner's stack
C8_Witness ==
    /\ InHand
    /\ state = "FINISHED"
    /\ winning_hand_rank # "Opponents Folded"
    /\ Len(winners) = 1
    /\ \E i \in NotFolded(players) :
          /\ players[i + 1].id = winners[1]
          /\ players[i + 1].is_all_in
          /\ players[i + 1].chips = pot
          /\ \E j \in NotFolded(players) : j # i /\ ~players[j + 1].is_all_in

\* an accepted fold in this step
FoldStep == last'.op = "player_action" /\ last'.err = "none" /\ last'.action = "fold"

\* the hand is awarded uncontested to seat w in this step
AwardedTo(w) ==
    /\ state' = "FINISHED"
    /\ players'[w + 1].chips = players[w + 1].chips + pot
    /\ winners' = <<players[w + 1].id>>
    /\ winning_hand_rank' = "Opponents Folded"
    /\ community_cards' = community_cards
    /\ deck' = deck

\* C9: fold-out award. When a fold leaves exactly one active player, the
\* same call ends the hand: FINISHED, that player's chips grow by the whole
\* pot, winners is that player alone, the reason is 'Opponents Folded', and
\* no community card is dealt.
C9_FoldOutAward ==
    [][(FoldStep /\ Cardinality(NotFolded(players')) = 1)
          => \A w \in NotFolded(players') : AwardedTo(w)]_vars

\* a fold on the flop left one player, who took the pot
C9_Witness ==
    /\ InHand
    /\ last.action = "fold"
    /\ state = "FINISHED"
    /\ winning_hand_rank = "Opponents Folded"
    /\ Len(community_cards) = 3
    /\ Len(winners) = 1
    /\ Cardinality(NotFolded(players)) = 1

\* an accepted player_action call of a started hand that is still being played
AcceptedStep ==
    /\ hand_ok /\ late_calls = 0
    /\ state # "FINISHED"
    /\ last'.op = "player_action" /\ last'.err = "none"

\* The players as the accepted action leaves them, before the turn advances,
\* read off the step: the acting seat is current_player_idx, it put pot' - pot
\* in, and a raise or an all-in reopens the action for whoever can act.
AfterBet(i) ==
    players[i + 1].current_bet + (IF i = current_player_idx THEN pot' - pot ELSE 0)

AfterCanAct(i) ==
    /\ CanAct(players[i + 1])
    /\ i = current_player_idx =>
          /\ last'.action # "fold"
          /\ players[i + 1].chips - (pot' - pot) > 0

AfterActed(i) ==
    IF i = current_player_idx THEN TRUE
    ELSE IF last'.action \in {"raise", "allin"} /\ CanAct(players[i + 1]) THEN FALSE
    ELSE players[i + 1].has_acted

AfterNotFolded ==
    NotFolded(players) \ (IF last'.action = "fold" THEN {current_player_idx} ELSE {})

AfterActors == {i \in 0..(Len(players) - 1) : AfterCanAct(i)}

\* every player that can still act has acted, and they all have the same bet in
StreetSettled ==
    /\ \A i \in AfterActors : AfterActed(i)
    /\ \A i, j \in AfterActors : AfterBet(i) = AfterBet(j)

\* C10: street-end detection. With at least two active players, an accepted
\* action ends the betting street (next street or showdown) if and only if
\* afterwards every active non-all-in player has acted and all of them have
\* the same current_bet.
C10_StreetEnd ==
    [][(AcceptedStep /\ Cardinality(AfterNotFolded) >= 2)
          => ((state' # state) <=> StreetSettled)]_vars

\* the bets are level before the flop but the big blind has not acted yet:
\* the small blind's call did not end the street
C10_Witness ==
    /\ InHand
    /\ state = "PREFLOP"
    /\ last.action = "call"
    /\ Cardinality(ActivePlayers(Engine)) >= 2
    /\ \A i \in ActivePlayers(Engine) : players[i + 1].current_bet = current_bet
    /\ \E i \in ActivePlayers(Engine) : ~players[i + 1].has_acted

\* an accepted raise, or an accepted all-in for more than the street bet
RaisingStep ==
    /\ AcceptedStep
    /\ \/ last'.action = "raise"
       \/ /\ last'.action = "allin"
          /\ players[current_player_idx + 1].chips
                + players[current_player_idx + 1].current_bet > current_bet

\* the seats other than the acting one that can act after the step
OthersToAct ==
    {i \in 0..(Len(players) - 1) : i # current_player_idx /\ CanAct(players'[i + 1])}

\* C11: a raise re-opens the action. After an accepted raise, or an all-in
\* that raises over the street bet, the acting player has has_acted true and
\* every other active non-all-in player has has_acted false, so the street
\* does not end on that call while such a player is left to answer.
C11_RaiseReopens ==
    [][(RaisingStep /\ OthersToAct # {}) =>
          /\ state' = state
          /\ players'[current_player_idx + 1].has_acted
          /\ \A i \in OthersToAct : ~players'[i + 1].has_acted]_vars

\* the big blind raised after the small blind had called: the small blind,
\* with the big blind's 20 already in, is on turn again and has not acted
C11_Witness ==
    /\ InHand
    /\ state = "PREFLOP"
    /\ last.action = "raise"
    /\ raise_count = 1
    /\ CanAct(players[current_player_idx + 1])
    /\ players[current_player_idx + 1].current_bet = big_blind
    /\ ~players[current_player_idx + 1].has_acted
    /\ \E i \in 0..(Len(players) - 1) :
          i # current_player_idx /\ players[i + 1].has_acted

\* raise amounts tried in every state: below, at and above the minimum raise
\* and the stacks of the table
ProbeAmounts == {0, 5, 20, 30, 35, 40, 45, 60, 80, 100, 120, 125}

\* what the claim expects of a raise to `amount` by the player on turn, p, while
\* the cap is not reached
RaiseAsClaimed(p, amount) ==
    IF amount < current_bet + min_raise /\ amount < p.chips + p.current_bet
    THEN RaiseOnTurn(amount).err = "raise_too_small"
    ELSE IF amount - p.current_bet > p.chips
    THEN RaiseOnTurn(amount).err = "not_enough_chips"
    ELSE /\ RaiseOnTurn(amount).err = "none"
         /\ RaiseOnTurn(amount).e.pot = pot + (amount - p.current_bet)
         /\ \/ amount - current_bet >= min_raise
            \/ p.chips - (amount - p.current_bet) = 0

\* C12: minimum raise. A 'raise' to amount a is accepted only if
\* a >= current_bet + min_raise (values before the action) or
\* a >= chips + current_bet of the player (a shove); otherwise it fails with
\* raise-too-small; a raise whose increment exceeds the player's chips fails
\* with not-enough-chips. So an accepted raise lifts the street bet by at
\* least min_raise or leaves the raiser with 0 chips.
C12_MinimumRaise ==
    (InHand /\ state # "FINISHED" /\ raise_count < max_raises_per_street) =>
        \A amount \in ProbeAmounts :
            RaiseAsClaimed(players[current_player_idx + 1], amount)

\* a re-raise was refused as too small after an earlier raise had lifted
\* min_raise above the big blind
C12_Witness ==
    /\ InHand
    /\ state # "FINISHED"
    /\ last.op = "player_action"
    /\ last.err = "raise_too_small"
    /\ raise_count < max_raises_per_street
    /\ min_raise > big_blind

\* the observers: every seated player's id, and an id that is nobody's
Observers(e) == 1..(Len(e.players) + 1)

\* e with the hole cards of everybody but the observer replaced by a card no
\* shuffle of the model deals
OthersRedealt(e, observer_id) ==
    [e EXCEPT !.players = [k \in 1..Len(e.players) |->
        IF e.players[k].id = observer_id THEN e.players[k]
        ELSE [e.players[k] EXCEPT !.hand = [j \in 1..Len(@) |-> Card(14, "C")]]]]

\* in every observer's projection of e, the hole cards of another player are
\* given when `showdown` holds and the player has not folded, and are all
\* None otherwise
MaskedUnless(e, showdown) ==
    \A o \in Observers(e), k \in 1..Len(e.players) :
        e.players[k].id # o =>
            get_public_game_state(e, o).players[k].hand =
                IF showdown /\ e.players[k].is_active
                THEN e.players[k].hand ELSE Masked(e.players[k].hand)

\* no observer's projection of e depends on the other players' hole cards
BlindToOthers(e) ==
    \A o \in Observers(e) :
        get_public_game_state(e, o) = get_public_game_state(OthersRedealt(e, o), o)

Concealed(e) == MaskedUnless(e, FALSE) /\ BlindToOthers(e)

Funded(ps) == Cardinality({k \in 1..Len(ps) : ps[k].chips > 0})

\* C14: start_hand precondition. start_hand fails with the not-enough-players
\* error whenever fewer than 2 seated players have chips > 0 (with 0 or 1
\* players seated too), and succeeds, leaving the state PREFLOP, whenever at
\* least 2 have chips > 0.
C14_StartHandPrecondition ==
    [][last'.op = "start_hand" =>
          IF Funded(players) < 2
          THEN last'.err = "not_enough_players"
          ELSE last'.err = "none" /\ state' = "PREFLOP"]_vars

\* C15: start_hand is side-effect-free on failure. A start_hand call that
\* fails with not-enough-players leaves the engine as it was: dealer_idx, pot,
\* current_bet, min_raise, state, winners, community cards, deck and every
\* player's hand and flags.
C15_StartHandFailureAtomic ==
    [][(last'.op = "start_hand" /\ last'.err = "not_enough_players")
          => engine_vars' = engine_vars]_vars

\* the place of a street marker in the order of GameState
StreetNo(st) ==
    CASE st = "PREFLOP" -> 1
      [] st = "FLOP" -> 2
      [] st = "TURN" -> 3
      [] st = "RIVER" -> 4
      [] st = "SHOWDOWN" -> 5
      [] st = "FINISHED" -> 6

\* C16: the street marker is forward-only. Within one hand the state only
\* moves forward in the order PREFLOP, FLOP, TURN, RIVER, SHOWDOWN, FINISHED
\* (a fold-out may jump straight to FINISHED); no player_action moves it
\* backward, and start_hand resets it to PREFLOP.
C16_ForwardOnly ==
    [][/\ last'.op = "player_action" => StreetNo(state) <= StreetNo(state')
       /\ (last'.op = "start_hand" /\ last'.err = "none") => state' = "PREFLOP"]_vars

\* a hand that went street by street to the river
C16_Witness ==
    /\ InHand
    /\ last.op = "player_action"
    /\ state = "RIVER"
    /\ Len(community_cards) = 5
    /\ Cardinality(ActivePlayers(Engine)) >= 2

\* the hand is FINISHED and was decided on the cards
FinishedByShowdown ==
    state = "FINISHED" /\ winning_hand_rank \notin {"", "Opponents Folded"}

\* C17: the board size matches the street. In every state reachable through
\* start_hand and player_action there are 0 community cards in PREFLOP, 3 in
\* FLOP, 4 in TURN and 5 in RIVER, and 5 whenever a hand finished by
\* showdown, also when the board was run out after all-ins.
C17_BoardSize ==
    /\ state = "PREFLOP" => Len(community_cards) = 0
    /\ state = "FLOP" => Len(community_cards) = 3
    /\ state = "TURN" => Len(community_cards) = 4
    /\ state = "RIVER" => Len(community_cards) = 5
    /\ FinishedByShowdown => Len(community_cards) = 5

\* a showdown on the full board between a player that is all-in and one that is not
C17_Witness ==
    /\ InHand
    /\ FinishedByShowdown
    /\ Len(community_cards) = 5
    /\ last.action \in {"call", "allin"}
    /\ \E i \in NotFolded(players) : players[i + 1].is_all_in
    /\ \E i \in NotFolded(players) : ~players[i + 1].is_all_in

\* C18: running out the board. If, when a street ends with at least 2
\* players still active, fewer than 2 active players are not all-in, the same
\* player_action call deals every remaining street up to 5 community cards
\* and resolves the showdown: the call returns in FINISHED.
C18_RunOut ==
    [][(/\ AcceptedStep
        /\ state' # state
        /\ Cardinality(AfterNotFolded) >= 2
        /\ Cardinality(AfterActors) < 2)
          => /\ state' = "FINISHED"
             /\ Len(community_cards') = 5
             /\ winning_hand_rank' \notin {"", "Opponents Folded"}
             /\ winners' # <<>>]_vars

\* a call closed the betting with every remaining player all-in, and the hand
\* was taken to the showdown on five cards
C18_Witness ==
    /\ InHand
    /\ FinishedByShowdown
    /\ last.action = "call"
    /\ Len(community_cards) = 5
    /\ Cardinality(NotFolded(players)) >= 2
    /\ \A i \in NotFolded(players) : players[i + 1].is_all_in

\* the seat nearest to `start`, counting `start` itself and going round the
\* table, whose player is active and not all-in; -1 when there is none
FirstSeatFrom(ps, start) ==
    LET N == Len(ps)
        dist == {d \in 0..(N - 1) : CanAct(ps[((start + d) % N) + 1])}
    IN  IF dist = {} THEN -1
        ELSE (start + (CHOOSE d \in dist : \A x \in dist : d <= x)) % N

\* C19: turn order. An accepted action of a started hand that ends neither the
\* street nor the hand moves current_player_idx to the nearest following seat,
\* cyclically, whose player is active and not all-in; an accepted action that
\* opens the flop, the turn or the river for betting puts the first active,
\* not all-in seat from (dealer_idx + 1) mod N on turn.
C19_TurnOrder ==
    [][/\ (AcceptedStep /\ state' = state) =>
            /\ CanAct(players'[current_player_idx' + 1])
            /\ current_player_idx' =
                  FirstSeatFrom(players', (current_player_idx + 1) % Len(players))
       /\ (AcceptedStep /\ state' # state /\ state' \in {"FLOP", "TURN", "RIVER"}) =>
            /\ CanAct(players'[current_player_idx' + 1])
            /\ current_player_idx' =
                  FirstSeatFrom(players', (dealer_idx' + 1) % Len(players))]_vars

\* a check on a post-flop street of a three-handed hand has passed the turn
\* over the seat next to the checker, whose player cannot act (folded or
\* all-in), to the seat after it
C19_Witness ==
    /\ hand_ok
    /\ Len(players) = 3
    /\ state \in {"FLOP", "TURN", "RIVER"}
    /\ last.op = "player_action" /\ last.err = "none" /\ last.action = "check"
    /\ LET skipped == (current_player_idx + 2) % 3
           checker == (current_player_idx + 1) % 3
       IN  /\ ~CanAct(players[skipped + 1])
           /\ players[skipped + 1].hand # <<>>
           /\ CanAct(players[checker + 1])
           /\ players[checker + 1].has_acted
           /\ CanAct(players[current_player_idx + 1])
           /\ ~players[current_player_idx + 1].has_acted

\* seats whose player is all-in
AllInSeats(ps) == {i \in 0..(Len(ps) - 1) : ps[i + 1].is_all_in}

\* C20: all-in bets are frozen. On every accepted call or raise of a started
\* hand, each player who was all-in before it, the caller or raiser included,
\* stays all-in; while the street goes on that player's current_bet and chips
\* are what they were, and the chips are what they were for as long as the
\* hand is not FINISHED.
C20_AllInFrozen ==
    [][(AcceptedStep /\ last'.action \in {"call", "raise"}) =>
          \A i \in AllInSeats(players) :
             /\ players'[i + 1].is_all_in
             /\ state' = state =>
                   /\ players'[i + 1].current_bet = players[i + 1].current_bet
                   /\ players'[i + 1].chips = players[i + 1].chips
             /\ state' # "FINISHED" =>
                   players'[i + 1].chips = players[i + 1].chips]_vars

\* a raise has been accepted in a street in which another player was already
\* all-in for less: the raiser can still act and is the one who has acted, and
\* the all-in player holds a smaller bet of this street and no chips
C20_Witness ==
    /\ hand_ok
    /\ state \in {"PREFLOP", "FLOP", "TURN", "RIVER"}
    /\ last.op = "player_action" /\ last.err = "none" /\ last.action = "raise"
    /\ \E i, j \in 0..(Len(players) - 1) :
          /\ i # j
          /\ players[i + 1].is_all_in
          /\ players[i + 1].chips = 0
          /\ players[i + 1].current_bet > 0
          /\ players[i + 1].current_bet < current_bet
          /\ CanAct(players[j + 1])
          /\ players[j + 1].has_acted
          /\ players[j + 1].current_bet = current_bet

\* the ids of the seated players
SeatedIds(ps) == {ps[k].id : k \in 1..Len(ps)}

\* C21: turn enforcement. In every reachable state (no hand started, a hand in
\* play, a failed start, a finished hand), player_action with an id that no
\* seated player has fails with player-not-found, and with the id of a seated
\* player other than the one at current_player_idx it fails with not-your-turn,
\* for every action and every probed amount; the engine is left as it was.
C21_TurnEnforcement ==
    LET e == Engine
    IN  \A pid \in 1..(Len(players) + 1), action \in Actions :
           \A amount \in (IF action = "raise" THEN ProbeAmounts ELSE {0}) :
              /\ pid \notin SeatedIds(players) =>
                   player_action(e, pid, action, amount) = Raised("player_not_found", e)
              /\ (pid \in SeatedIds(players) /\ players[current_player_idx + 1].id # pid) =>
                   player_action(e, pid, action, amount) = Raised("not_your_turn", e)

\* in a hand in play, a call by a seated player who is not on turn has just
\* been refused
C21_Witness ==
    /\ InHand
    /\ state # "FINISHED"
    /\ Len(players) >= 2
    /\ last.op = "player_action"
    /\ last.err = "not_your_turn"

\* the player at current_player_idx
OnTurn == players[current_player_idx + 1]

\* the chips of every player, seat by seat
ChipsOf(ps) == [k \in 1..Len(ps) |-> ps[k].chips]

\* the current_bet of every player, seat by seat
BetsOf(ps) == [k \in 1..Len(ps) |-> ps[k].current_bet]

\* what a check of the player on turn does in engine e, as the claim has it
CheckAsClaimed(e, r) ==
    IF e.players[e.current_player_idx + 1].current_bet = e.current_bet
    THEN /\ r.err = "none"
         /\ r.e.pot = e.pot
         /\ r.e.state = e.state =>
               /\ r.e.current_bet = e.current_bet
               /\ BetsOf(r.e.players) = BetsOf(e.players)
         /\ r.e.state # "FINISHED" => ChipsOf(r.e.players) = ChipsOf(e.players)
    ELSE r = Raised("cannot_check", e)

\* C22: check legality. In every state of a started, unfinished hand a check of
\* the player on turn is accepted if and only if that player's current_bet
\* equals the street current_bet, and is refused with cannot-check (engine
\* untouched) otherwise. An accepted check adds nothing to the pot, changes no
\* bet while the street goes on and no player's chips while the hand goes on.
C22_CheckLegality ==
    (InHand /\ state # "FINISHED") =>
        CheckAsClaimed(Engine, player_action(Engine, OnTurn.id, "check", 0))

\* a check has been accepted on a post-flop street and the street goes on: the
\* player now on turn has not acted yet, another player has
C22_Witness ==
    /\ InHand
    /\ state \in {"FLOP", "TURN", "RIVER"}
    /\ last.op = "player_action" /\ last.err = "none" /\ last.action = "check"
    /\ CanAct(OnTurn) /\ ~OnTurn.has_acted
    /\ \E k \in 1..Len(players) : players[k].has_acted /\ CanAct(players[k])

\* the step is an accepted player_action of this kind on a started, unfinished hand
AcceptedAction(action) == AcceptedStep /\ last'.action = action

\* the other players' chips (until the hand is resolved) and bets (while the
\* street goes on) are left as they were by the step
OthersUntouched ==
    \A k \in 1..Len(players) :
       k # current_player_idx + 1 =>
          /\ state' # "FINISHED" => players'[k].chips = players[k].chips
          /\ state' = state => players'[k].current_bet = players[k].current_bet

\* the step moved `moved` chips from the player on turn into the pot and into
\* his current_bet, and he is all-in exactly if that took his last chip
Posted(moved) ==
    /\ pot' = pot + moved
    /\ players'[current_player_idx + 1].is_all_in = (OnTurn.chips - moved = 0)
    /\ state' # "FINISHED" =>
          players'[current_player_idx + 1].chips = OnTurn.chips - moved
    /\ state' = state =>
          players'[current_player_idx + 1].current_bet = OnTurn.current_bet + moved
    /\ OthersUntouched

\* C23: call semantics. An accepted call of a started hand moves exactly
\* min(chips, current_bet - own current_bet) chips of the player on turn into
\* the pot and into his current_bet, leaves him all-in exactly when his chips
\* reach 0, touches no other player, and leaves the street current_bet,
\* min_raise and raise_count as they were while the street goes on.
C23_CallSemantics ==
    [][AcceptedAction("call") =>
          /\ Posted(Min(OnTurn.chips, current_bet - OnTurn.current_bet))
          /\ state' = state =>
                /\ current_bet' = current_bet
                /\ min_raise' = min_raise
                /\ raise_count' = raise_count]_vars

\* a player with fewer chips than the bet to match has called before the flop
\* and the street goes on: he has acted, all his chips are in as a bet below
\* the street bet, and he is all-in
C23_Witness ==
    /\ InHand
    /\ state = "PREFLOP"
    /\ last.op = "player_action" /\ last.err = "none" /\ last.action = "call"
    /\ current_bet = big_blind
    /\ CanAct(OnTurn)
    /\ \E k \in 1..Len(players) :
          /\ players[k].has_acted
          /\ players[k].is_all_in
          /\ players[k].chips = 0
          /\ players[k].current_bet > 0
          /\ players[k].current_bet < big_blind
          /\ pot = small_blind + big_blind + players[k].current_bet

\* what an allin of the player on turn does in engine e, as the claim has it
AllinAsClaimed(e, r) ==
    LET a == e.current_player_idx + 1
        p == e.players[a]
        raises == p.chips + p.current_bet > e.current_bet
    IN  /\ r.err = "none"
        /\ r.e.pot = e.pot + p.chips
        /\ r.e.players[a].is_all_in
        /\ r.e.state # "FINISHED" => r.e.players[a].chips = 0
        /\ r.e.state = e.state =>
              /\ r.e.players[a].current_bet = p.current_bet + p.chips
              /\ r.e.raise_count = e.raise_count + (IF raises THEN 1 ELSE 0)
        /\ \A k \in 1..Len(e.players) :
              (k # a /\ r.e.state # "FINISHED") => r.e.players[k].chips = e.players[k].chips

\* C24: all-in semantics. In every state of a started, unfinished hand an allin
\* of the player on turn is accepted; it moves all his chips into the pot and
\* into his current_bet, leaves him with 0 chips and all-in, and raise_count
\* goes up by one if chips + current_bet exceeded the street current_bet before
\* the action and stays as it was if not.
C24_AllInSemantics ==
    (InHand /\ state # "FINISHED") =>
        AllinAsClaimed(Engine, player_action(Engine, OnTurn.id, "allin", 0))

\* an all-in for more than the street bet has been accepted before the flop and
\* the street goes on: the player has no chips, is all-in, holds the street
\* bet, and raise_count is 1
C24_Witness ==
    /\ InHand
    /\ state = "PREFLOP"
    /\ last.op = "player_action" /\ last.err = "none" /\ last.action = "allin"
    /\ raise_count = 1
    /\ current_bet > big_blind
    /\ CanAct(OnTurn)
    /\ \E k \in 1..Len(players) :
          /\ players[k].has_acted
          /\ players[k].is_all_in
          /\ players[k].chips = 0
          /\ players[k].current_bet = current_bet

\* the player was dealt into the hand and has folded
Folded(p) == ~p.is_active /\ p.hand # <<>>

\* the ids in winners
WinnerIds(w) == {w[k] : k \in 1..Len(w)}

\* C25: fold semantics. An accepted fold of a started hand adds nothing to the
\* pot and, unless it ends the hand, changes nobody's chips. On every accepted
\* action of the hand, the player folding in it and every player who folded
\* before stay inactive, keep exactly their chips, are not in winners, and are
\* not put on turn while the hand goes on.
C25_FoldSemantics ==
    [][AcceptedStep =>
          /\ last'.action = "fold" =>
                /\ pot' = pot
                /\ state' # "FINISHED" => ChipsOf(players') = ChipsOf(players)
          /\ \A k \in 1..Len(players) :
                (Folded(players[k]) \/ (last'.action = "fold" /\ k = current_player_idx + 1)) =>
                   /\ ~players'[k].is_active
                   /\ players'[k].chips = players[k].chips
                   /\ players[k].id \notin WinnerIds(winners')
                   /\ state' # "FINISHED" => current_player_idx' # k - 1]_vars

\* a three-handed hand went to a showdown while one player had folded: the
\* folded player holds cards, is inactive and is not among the winners
C25_Witness ==
    /\ InHand
    /\ FinishedByShowdown
    /\ Len(players) = 3
    /\ winners # <<>>
    /\ Cardinality(NotFolded(players)) = 2
    /\ \E k \in 1..3 : Folded(players[k]) /\ players[k].id \notin WinnerIds(winners)

\* C26: sticky min-raise. min_raise is big_blind when start_hand returns and
\* when a street opens for betting; an accepted action that leaves the street
\* open never lowers it: after a posting that lifts the street bet it is the
\* larger of its old value and the increment (new street bet minus old street
\* bet), and otherwise it is unchanged. So within a street it is the maximum
\* of big_blind and the increments posted so far.
C26_StickyMinRaise ==
    [][/\ (last'.op = "start_hand" /\ last'.err = "none") => min_raise' = big_blind
       /\ (AcceptedStep /\ state' # state /\ state' # "FINISHED") => min_raise' = big_blind
       /\ (AcceptedStep /\ state' = state) =>
             /\ current_bet' >= current_bet
             /\ min_raise' = MaxOf({min_raise, current_bet' - current_bet})
             /\ min_raise' >= big_blind]_vars

\* before the flop a raise from 20 to 80 (increment 60) was followed by an
\* all-in to 120 (increment 40): min_raise is still 60
C26_Witness ==
    /\ InHand
    /\ state = "PREFLOP"
    /\ last.op = "player_action" /\ last.err = "none" /\ last.action = "allin"
    /\ raise_count = 2
    /\ current_bet = 120
    /\ min_raise = 60
    /\ OnTurn.current_bet = 80
    /\ CanAct(OnTurn)

\* an accepted action of a started hand that advances the street: to the next
\* betting street, or through the river to the showdown
StreetAdvance ==
    /\ AcceptedStep
    /\ state' # state
    /\ winning_hand_rank' # "Opponents Folded"

\* C27: per-street reset. Every accepted action that advances the street
\* leaves the street current_bet 0, min_raise big_blind, raise_count 0, and
\* every player's current_bet 0 and has_acted false. The pot keeps what it
\* held and gains what the acting player posted; while the hand goes on that
\* is what left the acting player's chips, and nobody else's chips move.
C27_StreetReset ==
    [][StreetAdvance =>
          /\ current_bet' = 0
          /\ min_raise' = big_blind
          /\ raise_count' = 0
          /\ \A k \in 1..Len(players) :
                players'[k].current_bet = 0 /\ ~players'[k].has_acted
          /\ pot' >= pot
          /\ state' # "FINISHED" =>
                /\ pot' - pot = OnTurn.chips - players'[current_player_idx + 1].chips
                /\ \A k \in 1..Len(players) :
                      k # current_player_idx + 1 => players'[k].chips = players[k].chips]_vars

\* the flop has just opened after a raised pre-flop street (160 in the pot):
\* no bet stands, nobody has acted, raise_count is 0 and min_raise is big_blind
C27_Witness ==
    /\ InHand
    /\ state = "FLOP"
    /\ Len(community_cards) = 3
    /\ last.op = "player_action" /\ last.err = "none" /\ last.action = "call"
    /\ pot = 160
    /\ current_bet = 0 /\ raise_count = 0 /\ min_raise = big_blind
    /\ \A k \in 1..Len(players) : players[k].current_bet = 0 /\ ~players[k].has_acted
    /\ Cardinality({k \in 1..Len(players) : CanAct(players[k])}) >= 2

\* what the seat `seat` posts as a blind of `blind` chips in this step
BlindPosted(seat, blind) ==
    /\ players'[seat + 1].current_bet = Min(players[seat + 1].chips, blind)
    /\ players'[seat + 1].chips = players[seat + 1].chips - Min(players[seat + 1].chips, blind)

\* C28: positions at hand start. Every start_hand call that returns moves
\* dealer_idx forward by exactly 1 modulo the number of seats, whoever sits
\* there; the seat (dealer + 1) mod N posts the small blind and the seat
\* (dealer + 2) mod N the big blind, each as far as its chips go; no other seat
\* posts anything; and the first active, not all-in seat from (dealer + 3)
\* mod N, when there is one, is on turn.
C28_HandStartPositions ==
    [][(last'.op = "start_hand" /\ last'.err = "none") =>
          LET N == Len(players)
              d == (dealer_idx + 1) % N
              sb == (d + 1) % N
              bb == (d + 2) % N
              first == FirstSeatFrom(players', (d + 3) % N)
          IN  /\ dealer_idx' = d
              /\ sb # bb
              /\ BlindPosted(sb, small_blind)
              /\ BlindPosted(bb, big_blind)
              /\ \A i \in 0..(N - 1) :
                    i \notin {sb, bb} =>
                       /\ players'[i + 1].current_bet = 0
                       /\ players'[i + 1].chips = players[i + 1].chips
              /\ pot' = players'[sb + 1].current_bet + players'[bb + 1].current_bet
              /\ first # -1 => current_player_idx' = first]_vars

\* start_hand has returned at a table of three where the seat the dealer
\* button moved to has no chips: the button is there all the same, the two
\* seats after it posted the blinds, and the turn passed over the eliminated
\* seat to the small blind
C28_Witness ==
    /\ InHand
    /\ last.op = "start_hand"
    /\ Len(players) = 3
    /\ dealer_idx = 1
    /\ players[2].chips = 0 /\ ~players[2].is_active /\ players[2].current_bet = 0
    /\ players[3].current_bet = small_blind
    /\ players[1].current_bet = big_blind
    /\ pot = small_blind + big_blind
    /\ current_player_idx = 2

\* the seat that posted the big blind of the hand in play
BigBlindSeat == (dealer_idx + 2) % Len(players)

\* after the step every player other than the big blind who can still act has
\* acted and holds the street bet
OthersSettled ==
    \A i \in 0..(Len(players) - 1) :
       (i # BigBlindSeat /\ CanAct(players'[i + 1])) =>
          /\ players'[i + 1].has_acted
          /\ players'[i + 1].current_bet = current_bet'

\* C29: big-blind option. When start_hand returns nobody has acted, the
\* posters of the blinds included. Before the flop, an accepted action of
\* another player that leaves at least two players in the hand, while the
\* big-blind player has not acted and can act, does not deal the flop; and
\* once every other player who can act has acted and matched the bet, the
\* big-blind player is the one on turn.
C29_BigBlindOption ==
    [][/\ (last'.op = "start_hand" /\ last'.err = "none") =>
             \A k \in 1..Len(players) : ~players'[k].has_acted
       /\ (/\ AcceptedStep
           /\ state = "PREFLOP"
           /\ current_player_idx # BigBlindSeat
           /\ ~players[BigBlindSeat + 1].has_acted
           /\ CanAct(players'[BigBlindSeat + 1])
           /\ Cardinality(AfterNotFolded) >= 2) =>
             /\ state' = "PREFLOP"
             /\ community_cards' = <<>>
             /\ ~players'[BigBlindSeat + 1].has_acted
             /\ OthersSettled => current_player_idx' = BigBlindSeat]_vars

\* at a table of three one player has folded and the other has called the big
\* blind, without a raise: it is still PREFLOP with no community card, and the
\* big-blind player, who has the street bet in and has not acted, is on turn
C29_Witness ==
    /\ InHand
    /\ state = "PREFLOP"
    /\ community_cards = <<>>
    /\ Len(players) = 3
    /\ last.op = "player_action" /\ last.err = "none" /\ last.action = "call"
    /\ raise_count = 0
    /\ current_player_idx = BigBlindSeat
    /\ CanAct(OnTurn) /\ ~OnTurn.has_acted /\ OnTurn.current_bet = big_blind
    /\ \E f, c \in 1..3 :
          /\ f # c /\ f # BigBlindSeat + 1 /\ c # BigBlindSeat + 1
          /\ Folded(players[f]) /\ players[f].has_acted
          /\ CanAct(players[c]) /\ players[c].has_acted
          /\ players[c].current_bet = big_blind

\* the player at seat k - 1 sits the hand out after the step: no hole cards,
\* inactive, no chips, no bet, not among the winners, and not on turn while the
\* hand goes on
SitsOutAfter(k) ==
    /\ players'[k].hand = <<>>
    /\ ~players'[k].is_active
    /\ players'[k].chips = 0
    /\ players'[k].current_bet = 0
    /\ players'[k].id \notin WinnerIds(winners')
    /\ state' # "FINISHED" => current_player_idx' # k - 1

\* C30: eliminated players sit out. A start_hand call that returns deals
\* exactly 2 hole cards to every player with chips and none to a player with
\* 0 chips; such a player is inactive, posts nothing, keeps 0 chips, is not in
\* winners and is not on turn, after start_hand and after every player_action
\* call of the hand.
C30_EliminatedSitOut ==
    [][/\ (last'.op = "start_hand" /\ last'.err = "none") =>
             \A k \in 1..Len(players) :
                IF players[k].chips = 0 THEN SitsOutAfter(k)
                ELSE Len(players'[k].hand) = 2 /\ players'[k].is_active
       /\ (hand_ok /\ late_calls = 0 /\ state # "FINISHED" /\ last'.op = "player_action") =>
             \A k \in 1..Len(players) :
                IF players[k].hand = <<>> THEN SitsOutAfter(k)
                ELSE players'[k].hand = players[k].hand]_vars

\* the pair (category value, tiebreak sequence) a is lexicographically greater
\* than b, the sequences compared element by element
LexGT(a, b) == a[1] > b[1] \/ (a[1] = b[1] /\ ListGT(a[2], b[2]))

\* what _evaluate_five gives for each 5-card subset of the list of cards
FiveCardValues(cards) ==
    {_evaluate_five(SortCards(SetToSeq({cards[i] : i \in T}))) :
        T \in {U \in SUBSET (1..Len(cards)) : Cardinality(U) = 5}}

\* C31: best of seven. For every list of 5, 6 or 7 distinct cards evaluate has
\* been called with, the pair it returned is the value of one of the 5-card
\* subsets (category and tiebreak from the same subset), and no 5-card subset
\* has a lexicographically greater value.
C31_BestOfSeven ==
    eval_result # <<>> =>
        /\ eval_result \in FiveCardValues(eval_cards)
        /\ \A v \in FiveCardValues(eval_cards) : ~LexGT(v, eval_result)

\* evaluate returned a flush for 7 cards that also hold a straight whose
\* tiebreak sequence is greater than the flush's
C31_Witness ==
    /\ Len(eval_cards) = 7
    /\ eval_result # <<>>
    /\ eval_result[1] = FLUSH
    /\ \E v \in FiveCardValues(eval_cards) : v[1] = STRAIGHT /\ ListGT(v[2], eval_result[2])

\* the ranks that occur in the cards, and how often a rank occurs
RankSet(cards) == {cards[i].rank : i \in 1..Len(cards)}

CountOf(cards, r) == Cardinality({i \in 1..Len(cards) : cards[i].rank = r})

\* flush: all suits identical
AllOneSuit(cards) == Cardinality({cards[i].suit : i \in 1..Len(cards)}) = 1

\* straight: 5 distinct ranks with max - min = 4, or the wheel A-5-4-3-2
FiveInARow(cards) ==
    /\ Cardinality(RankSet(cards)) = 5
    /\ \/ MaxOf(RankSet(cards)) - (CHOOSE m \in RankSet(cards) : \A r \in RankSet(cards) : m <= r) = 4
       \/ RankSet(cards) = {14, 5, 4, 3, 2}

\* the 5 cards qualify for the category, by the rules of poker
Qualifies(cat, cards) ==
    CASE cat = HIGH_CARD -> TRUE
      [] cat = PAIR -> \E r \in RankSet(cards) : CountOf(cards, r) >= 2
      [] cat = TWO_PAIR ->
            \E r, q \in RankSet(cards) :
               r # q /\ CountOf(cards, r) >= 2 /\ CountOf(cards, q) >= 2
      [] cat = THREE_OF_A_KIND -> \E r \in RankSet(cards) : CountOf(cards, r) >= 3
      [] cat = STRAIGHT -> FiveInARow(cards)
      [] cat = FLUSH -> AllOneSuit(cards)
      [] cat = FULL_HOUSE ->
            \E r, q \in RankSet(cards) : CountOf(cards, r) = 3 /\ CountOf(cards, q) = 2
      [] cat = FOUR_OF_A_KIND -> \E r \in RankSet(cards) : CountOf(cards, r) = 4
      [] cat = STRAIGHT_FLUSH -> FiveInARow(cards) /\ AllOneSuit(cards)
      [] cat = ROYAL_FLUSH ->
            FiveInARow(cards) /\ AllOneSuit(cards) /\ RankSet(cards) = 10..14

\* C32: five-card categories. For every 5 distinct cards evaluate has been
\* called with, the category returned is the highest of HIGH_CARD < PAIR <
\* TWO_PAIR < THREE_OF_A_KIND < STRAIGHT < FLUSH < FULL_HOUSE < FOUR_OF_A_KIND <
\* STRAIGHT_FLUSH < ROYAL_FLUSH the hand qualifies for.
C32_FiveCardCategories ==
    (eval_result # <<>> /\ Len(eval_cards) = 5) =>
        eval_result[1] = MaxOf({cat \in HIGH_CARD..ROYAL_FLUSH : Qualifies(cat, eval_cards)})

\* a full house was evaluated: the hand also qualifies as three of a kind,
\* two pair and pair, and FULL_HOUSE is what evaluate returned
C32_Witness ==
    /\ Len(eval_cards) = 5
    /\ eval_result # <<>>
    /\ eval_result[1] = FULL_HOUSE
    /\ Qualifies(THREE_OF_A_KIND, eval_cards)
    /\ Qualifies(TWO_PAIR, eval_cards)

\* the straight categories
StraightCategories == {STRAIGHT, STRAIGHT_FLUSH, ROYAL_FLUSH}

\* C33: wheel straight. A-5-4-3-2 evaluates to STRAIGHT (mixed suits) or
\* STRAIGHT_FLUSH (one suit) with tiebreak <<5,4,3,2,1>>, strictly below the
\* 6-high straight <<6,5,4,3,2>> of the same category, which is what 6-5-4-3-2
\* evaluates to; no other 5 cards with an Ace and a Two are a straight.
C33_WheelStraight ==
    (eval_result # <<>> /\ Len(eval_cards) = 5) =>
        /\ RankSet(eval_cards) = {14, 5, 4, 3, 2} =>
              /\ eval_result = <<IF AllOneSuit(eval_cards) THEN STRAIGHT_FLUSH ELSE STRAIGHT,
                                 <<5, 4, 3, 2, 1>>>>
              /\ LexGT(<<eval_result[1], <<6, 5, 4, 3, 2>>>>, eval_result)
        /\ RankSet(eval_cards) = {6, 5, 4, 3, 2} =>
              eval_result = <<IF AllOneSuit(eval_cards) THEN STRAIGHT_FLUSH ELSE STRAIGHT,
                              <<6, 5, 4, 3, 2>>>>
        /\ ({14, 2} \subseteq RankSet(eval_cards) /\ RankSet(eval_cards) # {14, 5, 4, 3, 2}) =>
              eval_result[1] \notin StraightCategories

\* a wheel of mixed suits was evaluated
C33_Witness ==
    /\ Len(eval_cards) = 5
    /\ RankSet(eval_cards) = {14, 5, 4, 3, 2}
    /\ ~AllOneSuit(eval_cards)
    /\ eval_result = <<STRAIGHT, <<5, 4, 3, 2, 1>>>>

\* the numbers of a set, greatest first
RECURSIVE DescSeq(_)
DescSeq(S) ==
    IF S = {} THEN <<>> ELSE <<MaxOf(S)>> \o DescSeq(S \ {MaxOf(S)})

\* the ranks a pair, two pair or three of a kind stands for, read back from
\* its tiebreak sequence
RanksFromTiebreak(cat, tb) ==
    CASE cat = PAIR -> <<tb[1], tb[1]>> \o Tail(tb)
      [] cat = TWO_PAIR -> <<tb[1], tb[1], tb[2], tb[2]>> \o Tail(Tail(tb))
      [] cat = THREE_OF_A_KIND -> <<tb[1], tb[1], tb[1]>> \o Tail(tb)

\* C34: kickers decide ties. For pair, two pair and three of a kind the
\* tiebreak sequence is the category-defining rank(s) followed by all remaining
\* ranks in descending order, so the multiset of the hand's ranks can be read
\* back from category and tiebreak: two hands of one category with equal
\* tiebreak sequences have the same multiset of ranks.
C34_Kickers ==
    (/\ eval_result # <<>>
     /\ Len(eval_cards) = 5
     /\ eval_result[1] \in {PAIR, TWO_PAIR, THREE_OF_A_KIND}) =>
        LET cat == eval_result[1]
            tb == eval_result[2]
            defining == {r \in RankSet(eval_cards) : CountOf(eval_cards, r) >= 2}
            remaining == {r \in RankSet(eval_cards) : CountOf(eval_cards, r) = 1}
            back == RanksFromTiebreak(cat, tb)
        IN  /\ tb = DescSeq(defining) \o DescSeq(remaining)
            /\ Len(back) = 5
            /\ \A r \in 1..14 :
                  Cardinality({i \in 1..5 : back[i] = r}) = CountOf(eval_cards, r)

\* two pair with a fifth card above both pairs was evaluated: the kicker comes
\* last in the tiebreak although it is the highest rank of the hand
C34_Witness ==
    /\ Len(eval_cards) = 5
    /\ eval_result # <<>>
    /\ eval_result[1] = TWO_PAIR
    /\ eval_result[2][3] > eval_result[2][1]
    /\ CountOf(eval_cards, eval_result[2][3]) = 1

\* C35: no second payout. Once a hand is FINISHED, a player_action call (any
\* seated player, any action, any amount) changes no player's chips, is not
\* accepted as a new bet and does not pay the pot again.
C35_NoSecondPayout ==
    [][(last'.op = "player_action" /\ state = "FINISHED") =>
          /\ last'.err # "none"
          /\ \A k \in 1..Len(players) : players'[k].chips = players[k].chips
          /\ pot' = pot
          /\ state' = "FINISHED"]_vars

\* C36: a non-raising all-in does not re-open the action. An accepted allin
\* whose total (chips + current_bet) does not exceed the street current_bet
\* leaves the has_acted flag of every other player as it was while the street
\* goes on, and a player who had acted and matched the bet is not on turn
\* again in that street.
C36_NoReopen ==
    [][(/\ last'.op = "player_action"
        /\ last'.action = "allin"
        /\ players[current_player_idx + 1].chips + players[current_player_idx + 1].current_bet
              <= current_bet
        /\ state' = state) =>
          \A k \in 1..Len(players) :
             k # current_player_idx + 1 =>
                /\ players'[k].has_acted = players[k].has_acted
                /\ (players[k].has_acted /\ players[k].current_bet = current_bet) =>
                      current_player_idx' # k - 1]_vars

\* what the on-turn player does to stay in: check when nothing is owed, call otherwise
CheckOrCall(e) ==
    IF e.current_bet - e.players[e.current_player_idx + 1].current_bet > 0
    THEN "call" ELSE "check"

\* C37: every hand terminates. While a hand is in progress the on-turn
\* player's check (nothing owed) or call (otherwise) is accepted, and when the
\* callers go on submitting accepted actions the hand reaches FINISHED: no
\* street admits an unbounded number of accepted actions.
C37_HandTerminates ==
    /\ [](InProgress =>
            player_action(Engine, players[current_player_idx + 1].id,
                          CheckOrCall(Engine), 0).err = "none")
    /\ (InProgress ~> state = "FINISHED")

\* a hand played down to the river and finished by a last check or call
C37_Witness ==
    /\ hand_ok
    /\ state = "FINISHED"
    /\ Len(community_cards) = 5
    /\ last.op = "player_action"
    /\ last.action \in {"check", "call"}
    /\ Len(winners) > 0

\* C38: the all-in flag matches the stack. While a hand is in progress every
\* active player has is_all_in true if and only if their chips are 0, and
\* every player's chips, every current_bet and the pot are non-negative.
C38_AllInFlag ==
    InProgress =>
        /\ \A k \in 1..Len(players) :
              /\ players[k].is_active => (players[k].is_all_in <=> players[k].chips = 0)
              /\ players[k].chips >= 0
              /\ players[k].current_bet >= 0
        /\ pot >= 0
        /\ current_bet >= 0

\* a hand in progress after a player_action in which a player put in his last
\* chips, with another player who still has chips and is not all-in
C38_Witness ==
    /\ InProgress
    /\ last.op = "player_action"
    /\ last.action \in {"call", "allin"}
    /\ \E k, j \in 1..Len(players) :
          /\ players[k].is_active /\ players[k].is_all_in /\ players[k].chips = 0
          /\ players[k].current_bet > 0
          /\ players[j].is_active /\ ~players[j].is_all_in /\ players[j].chips > 0

\* the chips committed to a pot that has not been paid out: the pot of a hand
\* that is not FINISHED
UnpaidPot(st, p) == IF st = "FINISHED" THEN 0 ELSE p

\* C39: start_hand never destroys chips. In whatever state start_hand is
\* called, a hand in progress included, the players' chips plus the chips
\* committed to a pot not yet paid out are the same in total before and after
\* the call.
C39_StartHandKeepsChips ==
    [][last'.op = "start_hand" =>
          SumChips(players') + UnpaidPot(state', pot')
             = SumChips(players) + UnpaidPot(state, pot)]_vars

\* C40: serialized bot actions. Under every interleaving of the handlers at
\* their await points, the action a check_ai_turn loop submits was decided
\* from an engine state that no call has mutated since (fresh), and the
\* player_acted event it emits is for an action the engine applied.
C40_SerializedBots ==
    IsBot(player_acted.player_id) => player_acted.fresh /\ player_acted.applied

====
